---- MODULE Spec2Model ----
(***************************************************************************)
(* Note-anchoring engine of the developer-tools extension: the in-memory   *)
(* note store (NotesService), the debounced edit reconciler                *)
(* (NotesLineTracker) with its relocation resolver, and the debounced      *)
(* save of the repository that the store awaits after every mutation.      *)
(*                                                                         *)
(* Line numbers are zero-based as in the source; a document is a sequence  *)
(* of line texts, so document line i is doc[i + 1].                        *)
(***************************************************************************)
EXTENDS Integers, Sequences, FiniteSets, TLC

(***************************************************************************)
(* Bounds of the model.                                                    *)
(***************************************************************************)
MaxNotes == 2
MaxLines == 4
MaxEdits == 2
MaxVisits == 10
MaxLateEdits == 3
MaxTime == 5
MaxCalls == 2
MaxLength == 2
MaxMinimum == 2
MaxEvents == 4

\* the quiet period of the edit debounce, in units of 100 ms
QuietPeriod == 3

\* a random byte has 256 values: randomBytes(1)[0]
ByteValues == 256

\* the default of the setting session.idleTimeoutMinutes
IdleTimeoutMinutes == 5

(***************************************************************************)
(* Values.                                                                 *)
(***************************************************************************)
Files == {"a.ts"}
LineTexts == {"", "a", "b"}
InitialDocument == <<"a", "b", "">>
\* the value of an optional field that was never set (JavaScript undefined)
Undefined == "<undefined>"

Max2(a, b) == IF a >= b THEN a ELSE b

\* the subsequence of s whose elements satisfy Test, in order
RECURSIVE SelectIds(_, _)
SelectIds(s, keep) ==
  IF s = <<>> THEN <<>>
  ELSE IF Head(s) \in keep THEN <<Head(s)>> \o SelectIds(Tail(s), keep)
       ELSE SelectIds(Tail(s), keep)

SeqToSet(s) == {s[i] : i \in 1..Len(s)}

(***************************************************************************)
(* Content fingerprint.  MD5 is modelled as a collision-free digest: the   *)
(* digest of a text is a value tagged with the text it was computed from,  *)
(* so two digests are equal exactly when the texts are.                    *)
(***************************************************************************)
hashContent(content) == <<"md5", content>>

\* NotesLineTracker.hashContent, which must match the one of the service
trackerHashContent(content) == <<"md5", content>>

(***************************************************************************)
(* Document access.                                                        *)
(***************************************************************************)
lineCount(doc) == Len(doc)
lineAt(doc, i) == doc[i + 1]

\* null is modelled by Undefined
getLineContent(doc, lineNumber) ==
  IF lineNumber < 0 \/ lineNumber >= lineCount(doc) THEN Undefined
  ELSE lineAt(doc, lineNumber)

getSurroundingContext(doc, lineNumber) ==
  [lineBefore |-> IF lineNumber > 0 THEN lineAt(doc, lineNumber - 1) ELSE Undefined,
   lineAfter  |-> IF lineNumber < lineCount(doc) - 1 THEN lineAt(doc, lineNumber + 1)
                  ELSE Undefined]

EmptyContext == [lineBefore |-> Undefined, lineAfter |-> Undefined]

\* JavaScript truthiness of an optional string: undefined and "" are falsy
Truthy(s) == s # Undefined /\ s # ""

(***************************************************************************)
(* Relocation resolver.                                                    *)
(***************************************************************************)
NoLocation == [found |-> FALSE, lineNumber |-> 0, lineContent |-> Undefined,
               surroundingContext |-> EmptyContext]

Location(doc, i) ==
  [found |-> TRUE, lineNumber |-> i, lineContent |-> lineAt(doc, i),
   surroundingContext |-> getSurroundingContext(doc, i)]

\* lines whose text equals the note's lineContent verbatim
ExactMatches(doc, note) ==
  {i \in 0..(lineCount(doc) - 1) : lineAt(doc, i) = note.lineContent}

beforeMatch(doc, note, i) ==
  \/ ~Truthy(note.surroundingContext.lineBefore)
  \/ getSurroundingContext(doc, i).lineBefore = note.surroundingContext.lineBefore

afterMatch(doc, note, i) ==
  \/ ~Truthy(note.surroundingContext.lineAfter)
  \/ getSurroundingContext(doc, i).lineAfter = note.surroundingContext.lineAfter

\* the guard of the second scan
ContextRecorded(note) ==
  \/ Truthy(note.surroundingContext.lineBefore)
  \/ Truthy(note.surroundingContext.lineAfter)

ContextMatches(doc, note) ==
  {i \in 0..(lineCount(doc) - 1) : beforeMatch(doc, note, i) /\ afterMatch(doc, note, i)}

Lowest(S) == CHOOSE i \in S : \A j \in S : i <= j

findNoteLocation(doc, note) ==
  IF ExactMatches(doc, note) # {} THEN Location(doc, Lowest(ExactMatches(doc, note)))
  ELSE IF ContextRecorded(note) /\ ContextMatches(doc, note) # {}
       THEN Location(doc, Lowest(ContextMatches(doc, note)))
       ELSE NoLocation

(***************************************************************************)
(* Note store (NotesService).  The index is a Map from id to note; ids are *)
(* handed out in creation order, so iterating the Map is iterating the ids *)
(* in increasing order.                                                    *)
(***************************************************************************)
NewNote(filePath, lineNumber, lineContent, surroundingContext) ==
  [filePath |-> filePath, lineNumber |-> lineNumber, lineContent |-> lineContent,
   lineContentHash |-> hashContent(lineContent),
   surroundingContext |-> surroundingContext, status |-> "active"]

\* { ...note, ...options } followed by the conditional re-hash
MergeNote(note, options) ==
  LET merged == [k \in DOMAIN note |-> IF k \in DOMAIN options THEN options[k] ELSE note[k]]
  IN IF "lineContent" \in DOMAIN options /\ Truthy(options.lineContent)
     THEN [merged EXCEPT !.lineContentHash = hashContent(options.lineContent)]
     ELSE merged

\* ids of the notes of a file, sorted by line number (stable: ties in Map order)
RECURSIVE SortedIds(_, _)
SortedIds(ns, ids) ==
  IF ids = {} THEN <<>>
  ELSE LET first == CHOOSE i \in ids : \A j \in ids :
                      \/ ns[i].lineNumber < ns[j].lineNumber
                      \/ (ns[i].lineNumber = ns[j].lineNumber /\ i <= j)
       IN <<first>> \o SortedIds(ns, ids \ {first})

\* a slip: the filter on filePath is left out, as in getAll
getByFileUnfiltered(ns, filePath) == SortedIds(ns, DOMAIN ns)

getByFile(ns, filePath) ==
  SortedIds(ns, {i \in DOMAIN ns : ns[i].filePath = filePath})

Remove(ns, ids) == [i \in DOMAIN ns \ ids |-> ns[i]]

\* bulkDelete: the notes left, and the ids that were really deleted
bulkDelete(ns, ids) ==
  [notes |-> Remove(ns, SeqToSet(ids)), deletedIds |-> SeqToSet(ids) \cap DOMAIN ns]

\* update / markOrphaned on a note that exists
update(ns, id, options) == [ns EXCEPT ![id] = MergeNote(ns[id], options)]

\* bulkUpdate: updates is a sequence of [id, options], applied in order
RECURSIVE bulkUpdate(_, _)
bulkUpdate(ns, updates) ==
  IF updates = <<>> THEN ns
  ELSE LET u == Head(updates)
       IN bulkUpdate(IF u.id \in DOMAIN ns THEN update(ns, u.id, u.options) ELSE ns,
                     Tail(updates))

(***************************************************************************)
(* Edit ranges.  A change is [startLine, endLine, text]; text is the       *)
(* replacement text split at its line breaks, so <<"">> is the empty       *)
(* string and Len(text) - 1 the number of line breaks in it.               *)
(***************************************************************************)
deletedLines(change) == change.endLine - change.startLine
\* a slip: the lines of the replacement text are counted, not its line breaks
addedLinesCountsLines(change) == Len(change.text)

addedLines(change) == Len(change.text) - 1
lineDelta(change) == addedLines(change) - deletedLines(change)
\* a slip in the comparison: a deletion of one line is not recognised
isPureDeletionOffByOne(change) == deletedLines(change) > 1 /\ change.text = <<"">>

isPureDeletion(change) == deletedLines(change) > 0 /\ change.text = <<"">>
isSingleLineEdit(change) == deletedLines(change) = 0 /\ addedLines(change) = 0

\* [...changes].sort((a, b) => b.range.start.line - a.range.start.line), stable
RECURSIVE InsertChange(_, _)
InsertChange(sorted, c) ==
  IF sorted = <<>> THEN <<c>>
  ELSE IF Head(sorted).startLine < c.startLine THEN <<c>> \o sorted
       ELSE <<Head(sorted)>> \o InsertChange(Tail(sorted), c)

\* a slip: the ranges are processed in the order they were delivered
deliveryOrder(changes) == changes

RECURSIVE sortedChanges(_)
sortedChanges(changes) ==
  IF changes = <<>> THEN <<>>
  ELSE InsertChange(sortedChanges(SubSeq(changes, 1, Len(changes) - 1)),
                    changes[Len(changes)])

(***************************************************************************)
(* The live line map of processChanges: a JavaScript Map from line number  *)
(* to an array of notes, kept as the sequence of its entries in insertion  *)
(* order.  Setting an existing key keeps the entry's position, setting a   *)
(* new key appends an entry, and an iteration in progress visits entries   *)
(* appended while it runs.  Only the id of a bucket's notes is read.       *)
(***************************************************************************)
MapHas(map, key) == \E i \in 1..Len(map) : map[i].key = key

MapGet(map, key) ==
  IF MapHas(map, key) THEN map[CHOOSE i \in 1..Len(map) : map[i].key = key].notes
  ELSE <<>>

MapSet(map, key, value) ==
  IF MapHas(map, key)
  THEN [i \in 1..Len(map) |-> IF map[i].key = key THEN [key |-> key, notes |-> value]
                              ELSE map[i]]
  ELSE Append(map, [key |-> key, notes |-> value])

\* lines 309-314: seed the map from the notes of the file
RECURSIVE SeedMap(_, _, _)
SeedMap(ns, ids, map) ==
  IF ids = <<>> THEN map
  ELSE SeedMap(ns, Tail(ids),
               MapSet(map, ns[Head(ids)].lineNumber,
                      Append(MapGet(map, ns[Head(ids)].lineNumber), Head(ids))))

\* index of the first queued update of a note, 0 when there is none
FindUpdate(notesToUpdate, id) ==
  IF \E i \in 1..Len(notesToUpdate) : notesToUpdate[i].id = id
  THEN CHOOSE i \in 1..Len(notesToUpdate) :
         /\ notesToUpdate[i].id = id
         /\ \A j \in 1..(i - 1) : notesToUpdate[j].id # id
  ELSE 0

\* a slip: only the notes marked for deletion are skipped, not the ones
\* marked for orphaning
ClassifyNoteSkipsDeletedOnly(st, change, lineNum, id) ==
  IF id \in SeqToSet(st.notesToDelete) THEN st
  ELSE IF lineNum >= change.startLine /\ lineNum <= change.endLine
  THEN IF isPureDeletion(change)
       THEN [st EXCEPT !.notesToDelete = Append(@, id)]
       ELSE IF isSingleLineEdit(change)
       THEN [st EXCEPT !.notesToUpdate =
               Append(@, [id |-> id, lineNumber |-> lineNum, needsVerification |-> TRUE])]
       ELSE [st EXCEPT !.notesToOrphan = Append(@, id)]
  ELSE IF lineNum > change.endLine
  THEN LET existing == FindUpdate(st.notesToUpdate, id)
           newLineNum == lineNum + lineDelta(change)
           removed == MapSet(st.noteLineMap, lineNum,
                             SelectIds(MapGet(st.noteLineMap, lineNum),
                                       SeqToSet(MapGet(st.noteLineMap, lineNum)) \ {id}))
       IN [st EXCEPT
             !.notesToUpdate =
                IF existing # 0
                THEN [@ EXCEPT ![existing].lineNumber = @ + lineDelta(change)]
                ELSE Append(@, [id |-> id, lineNumber |-> newLineNum,
                                needsVerification |-> FALSE]),
             !.noteLineMap = MapSet(removed, newLineNum,
                                    Append(MapGet(removed, newLineNum), id))]
  ELSE st

\* lines 333-375: one note of one bucket against one change
ClassifyNote(st, change, lineNum, id) ==
  IF id \in SeqToSet(st.notesToDelete) \/ id \in SeqToSet(st.notesToOrphan) THEN st
  ELSE IF lineNum >= change.startLine /\ lineNum <= change.endLine
  THEN IF isPureDeletion(change)
       THEN [st EXCEPT !.notesToDelete = Append(@, id)]
       ELSE IF isSingleLineEdit(change)
       THEN [st EXCEPT !.notesToUpdate =
               Append(@, [id |-> id, lineNumber |-> lineNum, needsVerification |-> TRUE])]
       ELSE [st EXCEPT !.notesToOrphan = Append(@, id)]
  ELSE IF lineNum > change.endLine
  THEN LET existing == FindUpdate(st.notesToUpdate, id)
           newLineNum == lineNum + lineDelta(change)
           removed == MapSet(st.noteLineMap, lineNum,
                             SelectIds(MapGet(st.noteLineMap, lineNum),
                                       SeqToSet(MapGet(st.noteLineMap, lineNum)) \ {id}))
       IN [st EXCEPT
             !.notesToUpdate =
                IF existing # 0
                THEN [@ EXCEPT ![existing].lineNumber = @ + lineDelta(change)]
                ELSE Append(@, [id |-> id, lineNumber |-> newLineNum,
                                needsVerification |-> FALSE]),
             !.noteLineMap = MapSet(removed, newLineNum,
                                    Append(MapGet(removed, newLineNum), id))]
  ELSE st

\* line 332: the notes of the bucket as it was when the entry was reached
RECURSIVE ClassifyBucket(_, _, _, _)
ClassifyBucket(st, change, lineNum, lineNotes) ==
  IF lineNotes = <<>> THEN st
  ELSE ClassifyBucket(ClassifyNote(st, change, lineNum, Head(lineNotes)),
                      change, lineNum, Tail(lineNotes))

\* line 331: iterate the entries of the live map; an iteration that has not
\* ended after MaxVisits entries is one that never ends (every visit appends
\* an entry, so an engine with a limit on the size of a Map aborts the run
\* with an error instead): in both cases the run applies nothing
RECURSIVE ClassifyEntries(_, _, _, _)
ClassifyEntries(st, change, index, visits) ==
  IF index > Len(st.noteLineMap) THEN st
  ELSE IF visits >= MaxVisits THEN [st EXCEPT !.diverged = TRUE]
  ELSE ClassifyEntries(
         ClassifyBucket([st EXCEPT !.visits = Max2(@, visits + 1)], change,
                        st.noteLineMap[index].key, st.noteLineMap[index].notes),
         change, index + 1, visits + 1)

\* line 317: the changes in sorted order
RECURSIVE ClassifyChanges(_, _)
ClassifyChanges(st, changes) ==
  IF changes = <<>> \/ st.diverged THEN st
  ELSE ClassifyChanges(ClassifyEntries(st, Head(changes), 1, 0), Tail(changes))

\* lines 296-378
Classify(ns, filePath, changes) ==
  ClassifyChanges([noteLineMap |-> SeedMap(ns, getByFile(ns, filePath), <<>>),
                   notesToDelete |-> <<>>, notesToUpdate |-> <<>>,
                   notesToOrphan |-> <<>>, diverged |-> FALSE, visits |-> 0],
                  sortedChanges(changes))

(***************************************************************************)
(* Apply phase of processChanges, lines 390-441.                           *)
(***************************************************************************)
\* lines 394-436: the bulk update one queued entry contributes, <<>> if none
UpdateFor(ns, doc, upd) ==
  IF upd.id \notin DOMAIN ns THEN <<>>
  ELSE LET note == ns[upd.id]
           currentContent == getLineContent(doc, upd.lineNumber)
           newLocation == findNoteLocation(doc, note)
       IN IF upd.needsVerification
          THEN IF currentContent # Undefined
                  /\ note.lineContentHash # trackerHashContent(currentContent)
               THEN IF newLocation.found
                    THEN <<[id |-> upd.id,
                            options |-> [lineNumber |-> newLocation.lineNumber,
                                         lineContent |-> newLocation.lineContent,
                                         surroundingContext |-> newLocation.surroundingContext,
                                         status |-> "active"]]>>
                    ELSE <<[id |-> upd.id, options |-> [status |-> "orphaned"]]>>
               ELSE <<>>
          ELSE IF upd.lineNumber # note.lineNumber
               THEN <<[id |-> upd.id,
                       options |-> [lineNumber |-> upd.lineNumber,
                                    lineContent |-> IF currentContent # Undefined
                                                    THEN currentContent
                                                    ELSE note.lineContent,
                                    surroundingContext |->
                                       getSurroundingContext(doc, upd.lineNumber)]]>>
               ELSE <<>>

RECURSIVE bulkUpdates(_, _, _)
bulkUpdates(ns, doc, notesToUpdate) ==
  IF notesToUpdate = <<>> THEN <<>>
  ELSE UpdateFor(ns, doc, Head(notesToUpdate)) \o bulkUpdates(ns, doc, Tail(notesToUpdate))

(***************************************************************************)
(* State.                                                                  *)
(***************************************************************************)
VARIABLES
  notes,           \* NotesService.notes: id -> note
  nextId,          \* number of notes created so far, plus one
  documents,       \* the editor's live document of each file
  pendingChanges,  \* NotesLineTracker.pendingChanges: file -> changes
  debounceTimers,  \* NotesLineTracker.debounceTimers: file -> timer armed
  debounceTimer,   \* NotesRepository.debounceTimer: who awaits the armed save
  task,            \* the processChanges run suspended at an await
  last,            \* record of the latest run that finished classifying
  editCount,       \* number of edit events delivered so far
  awaitingNotify,  \* the change event of the saveAndNotify call whose save is armed
  now,             \* the time, in units of 100 ms
  timeouts,        \* file -> the times at which its scheduled, uncleared timers were set
  eventLog,        \* file -> when its latest edit event came, and how many since its run
  call,            \* record of the latest call of the store's interface
  handler,         \* the handler of NotesFileTracker suspended at an await
  repository,      \* NotesRepository: pendingSave, the writes in flight, the file
  currentSession   \* SessionService.currentSession

vars == <<notes, nextId, documents, pendingChanges, debounceTimers, debounceTimer,
          task, last, editCount, awaitingNotify, now, timeouts, eventLog, call,
          handler, repository, currentSession>>

NoNotes == [i \in {} |-> 0]

Idle == [phase |-> "idle", file |-> "", changes |-> <<>>, before |-> NoNotes,
         notesToDelete |-> <<>>, notesToOrphan |-> <<>>, notesToUpdate |-> <<>>,
         orphanQueue |-> <<>>, visits |-> 0]

NoRun == [kind |-> "none", file |-> "", changes |-> <<>>, before |-> NoNotes,
          notesToDelete |-> <<>>, notesToOrphan |-> <<>>, notesToUpdate |-> <<>>,
          read |-> NoNotes, after |-> NoNotes, document |-> <<>>, visits |-> 0]

\* no saveAndNotify call is waiting for a save
NoEvent == [type |-> "none", noteIds |-> {}]

\* no call of the store's interface has been recorded
NoCall == [op |-> "none", count |-> 0]

\* the repository after construction: pendingSave is null, nothing is being
\* written, and the file is as it was loaded (it is followed from the first
\* write on)
NewRepository ==
  [pendingSave |-> <<>>, writing |-> {}, storage |-> <<>>, disposed |-> FALSE]

\* SessionService.currentSession after construction: null
NoSession == [status |-> "none"]

\* no handler of the file tracker is running
NoHandler == [kind |-> "none", phase |-> "idle", event |-> 0]

\* no edit event has been delivered for the file: at and ranges are about
\* every event, trackedAt and trackedRanges about those that found a note
NoEdits == [at |-> 0, trackedAt |-> 0, ranges |-> 0, trackedRanges |-> 0]

Init ==
  /\ notes = NoNotes
  /\ nextId = 1
  /\ documents = [f \in Files |-> InitialDocument]
  /\ pendingChanges = [f \in Files |-> <<>>]
  /\ debounceTimers = [f \in Files |-> FALSE]
  /\ debounceTimer = "none"
  /\ task = Idle
  /\ last = NoRun
  /\ editCount = 0
  /\ awaitingNotify = NoEvent
  /\ now = 0
  /\ timeouts = [f \in Files |-> {}]
  /\ eventLog = [f \in Files |-> NoEdits]
  /\ call = NoCall
  /\ handler = NoHandler
  /\ repository = NewRepository
  /\ currentSession = NoSession

(***************************************************************************)
(* NotesRepository.save: the pending timer is cleared and a new one armed; *)
(* the promise of the cleared timer is never settled, so a run that was    *)
(* awaiting it stays suspended for good.                                   *)
(***************************************************************************)
Stranded(t) ==
  IF t.phase \in {"orphan", "final"} THEN [t EXCEPT !.phase = "stranded"] ELSE t

\* the same for a handler of the file tracker that was awaiting the save
StrandedHandler(h) ==
  IF h.phase = "waiting" THEN [h EXCEPT !.phase = "stranded"] ELSE h

(***************************************************************************)
(* NotesService.create, called by the note editor with the text of the     *)
(* cursor line; the legacy panel also records the line's neighbours.  Its *)
(* save replaces the pending one, whose awaiter is left suspended.         *)
(***************************************************************************)
AddNote(f, line, withContext) ==
  /\ nextId <= MaxNotes
  /\ line \in 0..(lineCount(documents[f]) - 1)
  /\ notes' = [i \in DOMAIN notes \cup {nextId} |->
                 IF i = nextId
                 THEN NewNote(f, line, lineAt(documents[f], line),
                              IF withContext THEN getSurroundingContext(documents[f], line)
                              ELSE EmptyContext)
                 ELSE notes[i]]
  /\ nextId' = nextId + 1
  /\ debounceTimer' = "create"
  /\ awaitingNotify' = [type |-> "created", noteIds |-> {nextId}]
  /\ task' = Stranded(task)
  /\ handler' = StrandedHandler(handler)
  /\ UNCHANGED <<currentSession, repository, documents, pendingChanges, debounceTimers, last, editCount,
                 now, timeouts, eventLog, call>>

(***************************************************************************)
(* handleDocumentChange, lines 248-284: the editor has applied a change to *)
(* the document and delivers its range.                                    *)
(***************************************************************************)
\* a slip: the timer of the previous event is left to fire
rearmWithoutClear(pending, armed, t) == pending \cup {t}

\* lines 273-283: the timer held by the Map, the one set last, is cleared
\* and a new one is set
rearm(pending, armed, t) ==
  (IF armed THEN pending \ {CHOOSE m \in pending : \A n \in pending : n <= m}
   ELSE pending) \cup {t}

\* a slip: the ranges of the latest event replace those accumulated
accumulateLatest(existingChanges, change) == <<change>>

\* lines 268-270: the ranges of the event are pushed on those accumulated
accumulate(existingChanges, change) == Append(existingChanges, change)

handleDocumentChange(f, newDocument, change) ==
  /\ editCount' = editCount + 1
  /\ documents' = [documents EXCEPT ![f] = newDocument]
  /\ IF getByFile(notes, f) = <<>>
     THEN /\ eventLog' = [eventLog EXCEPT ![f].at = now, ![f].ranges = @ + 1]
          /\ UNCHANGED <<pendingChanges, debounceTimers, timeouts>>
     ELSE /\ pendingChanges' = [pendingChanges EXCEPT ![f] = accumulate(@, change)]
          /\ timeouts' = [timeouts EXCEPT ![f] = rearm(@, debounceTimers[f], now)]
          /\ debounceTimers' = [debounceTimers EXCEPT ![f] = TRUE]
          /\ eventLog' = [eventLog EXCEPT ![f] =
                            [at |-> now, trackedAt |-> now, ranges |-> @.ranges + 1,
                             trackedRanges |-> @.trackedRanges + 1]]
  /\ UNCHANGED <<currentSession, repository, notes, nextId, debounceTimer, task, last, awaitingNotify, now,
                 call, handler>>

\* the text of line l is replaced by s
EditLine(f, l, s) ==
  /\ l \in 0..(lineCount(documents[f]) - 1)
  /\ handleDocumentChange(f, [documents[f] EXCEPT ![l + 1] = s],
                          [startLine |-> l, endLine |-> l, text |-> <<s>>])

\* lines(l, 0)..(l + d, 0) are deleted: d whole lines
DeleteLines(f, l, d) ==
  /\ l + d <= lineCount(documents[f]) - 1
  /\ handleDocumentChange(f,
        SubSeq(documents[f], 1, l) \o SubSeq(documents[f], l + d + 1, Len(documents[f])),
        [startLine |-> l, endLine |-> l + d, text |-> <<"">>])

\* the text t followed by a line break is inserted at (l, 0)
InsertLines(f, l, t) ==
  /\ l \in 0..(lineCount(documents[f]) - 1)
  /\ lineCount(documents[f]) + Len(t) <= MaxLines
  /\ handleDocumentChange(f,
        SubSeq(documents[f], 1, l) \o t \o SubSeq(documents[f], l + 1, Len(documents[f])),
        [startLine |-> l, endLine |-> l, text |-> t \o <<"">>])

\* lines l..l+d are selected from (l, 0) to the end of line l + d and
\* replaced by the text t
ReplaceLines(f, l, d, t) ==
  /\ l + d <= lineCount(documents[f]) - 1
  /\ ~(d = 0 /\ Len(t) = 1)
  /\ lineCount(documents[f]) - (d + 1) + Len(t) <= MaxLines
  /\ handleDocumentChange(f,
        SubSeq(documents[f], 1, l) \o t \o SubSeq(documents[f], l + d + 2, Len(documents[f])),
        [startLine |-> l, endLine |-> l + d, text |-> t])

(***************************************************************************)
(* processChanges, lines 286-442.  Run(ns, doc, t) is the part of a run    *)
(* from the first pending markOrphaned up to its next await: the store it  *)
(* leaves, the suspended run (Idle when it returned), whether save was     *)
(* called, and whether the final bulk update was reached.                  *)
(***************************************************************************)
RECURSIVE Run(_, _, _)
Run(ns, doc, t) ==
  IF t.orphanQueue # <<>>
  THEN IF Head(t.orphanQueue) \in DOMAIN ns
       THEN [notes |-> update(ns, Head(t.orphanQueue), [status |-> "orphaned"]),
             task |-> [t EXCEPT !.phase = "orphan", !.orphanQueue = Tail(@)],
             saved |-> TRUE, applied |-> FALSE, read |-> ns,
             event |-> [type |-> "updated", noteIds |-> {Head(t.orphanQueue)}]]
       ELSE Run(ns, doc, [t EXCEPT !.orphanQueue = Tail(@)])
  ELSE LET updates == bulkUpdates(ns, doc, t.notesToUpdate)
       IN [notes |-> bulkUpdate(ns, updates),
           task |-> IF updates # <<>> THEN [t EXCEPT !.phase = "final"] ELSE Idle,
           saved |-> updates # <<>>, applied |-> TRUE, read |-> ns,
           event |-> [type |-> "bulk-updated",
                      noteIds |-> {updates[u].id : u \in 1..Len(updates)}]]

RunRecord(t, r, doc, kind) ==
  [kind |-> kind, file |-> t.file, changes |-> t.changes, before |-> t.before,
   notesToDelete |-> t.notesToDelete, notesToOrphan |-> t.notesToOrphan,
   notesToUpdate |-> t.notesToUpdate, read |-> r.read, after |-> r.notes,
   document |-> doc, visits |-> t.visits]

\* the debounce timer of file f fires
processChanges(f) ==
  /\ debounceTimers[f]
  /\ pendingChanges[f] # <<>>
  /\ \E t \in timeouts[f] : timeouts' = [timeouts EXCEPT ![f] = @ \ {t}]
  /\ pendingChanges' = [pendingChanges EXCEPT ![f] = <<>>]
  /\ debounceTimers' = [debounceTimers EXCEPT ![f] = FALSE]
  /\ eventLog' = [eventLog EXCEPT ![f].ranges = 0, ![f].trackedRanges = 0]
  /\ \E c \in {Classify(notes, f, pendingChanges[f])} :
     \E t \in {[phase |-> "start", file |-> f,
                changes |-> sortedChanges(pendingChanges[f]),
                before |-> notes, notesToDelete |-> c.notesToDelete,
                notesToOrphan |-> c.notesToOrphan, notesToUpdate |-> c.notesToUpdate,
                orphanQueue |-> c.notesToOrphan, visits |-> c.visits]} :
       IF c.diverged
       THEN /\ last' = RunRecord(t, [read |-> notes, notes |-> notes], documents[f],
                                  "diverged")
            /\ UNCHANGED <<notes, debounceTimer, task, awaitingNotify, handler>>
       ELSE \E deleted \in {bulkDelete(notes, c.notesToDelete)} :
            \E r \in {IF deleted.deletedIds # {}
                      THEN [notes |-> deleted.notes, task |-> [t EXCEPT !.phase = "orphan"],
                            saved |-> TRUE, applied |-> FALSE, read |-> notes,
                            event |-> [type |-> "bulk-deleted",
                                       noteIds |-> deleted.deletedIds]]
                      ELSE Run(notes, documents[f], t)} :
              /\ notes' = r.notes
              /\ last' = RunRecord(t, r, documents[f],
                                   IF r.applied THEN "applied" ELSE "classified")
              /\ IF r.saved
                 THEN /\ debounceTimer' = "processChanges"
                      /\ task' = r.task
                      /\ awaitingNotify' = r.event
                      /\ handler' = StrandedHandler(handler)
                 ELSE UNCHANGED <<debounceTimer, task, awaitingNotify, handler>>
  /\ UNCHANGED <<currentSession, repository, nextId, documents, editCount, now, call>>

(***************************************************************************)
(* The save timer of the repository fires (lines 56-64 of the repository): *)
(* the promise of the latest save is resolved, its saveAndNotify fires the *)
(* change event it was holding back, and its awaiter resumes.              *)
(***************************************************************************)
SaveTimerFires ==
  /\ debounceTimer \notin {"none", "fileTracker"}
  /\ IF debounceTimer = "processChanges" /\ task.phase = "orphan"
     THEN \E r \in {Run(notes, documents[task.file], task)} :
            /\ notes' = r.notes
            /\ IF r.applied
               THEN last' = RunRecord(task, r, documents[task.file], "applied")
               ELSE UNCHANGED last
            /\ IF r.saved
               THEN /\ debounceTimer' = "processChanges"
                    /\ task' = r.task
                    /\ awaitingNotify' = r.event
               ELSE /\ debounceTimer' = "none"
                    /\ task' = Idle
                    /\ awaitingNotify' = NoEvent
     ELSE /\ debounceTimer' = "none"
          /\ task' = IF debounceTimer = "processChanges" THEN Idle ELSE task
          /\ awaitingNotify' = NoEvent
          /\ UNCHANGED <<notes, last>>
  /\ UNCHANGED <<currentSession, repository, nextId, documents, pendingChanges, debounceTimers, editCount,
                 now, timeouts, eventLog, call, handler>>

InsertTexts == {<<"a">>}
PasteTexts == {<<"a">>, <<"b", "a">>}

Next ==
  \/ \E f \in Files, l \in 0..(MaxLines - 1), c \in BOOLEAN : AddNote(f, l, c)
  \/ \E f \in Files, l \in 0..(MaxLines - 1), s \in LineTexts :
        editCount < MaxEdits /\ EditLine(f, l, s)
  \/ \E f \in Files, l \in 0..(MaxLines - 1), d \in 1..2 :
        editCount < MaxEdits /\ DeleteLines(f, l, d)
  \/ \E f \in Files, l \in 0..(MaxLines - 1), t \in InsertTexts :
        editCount < MaxEdits /\ InsertLines(f, l, t)
  \/ \E f \in Files, l \in 0..(MaxLines - 1), d \in 0..1, t \in PasteTexts :
        editCount < MaxEdits /\ ReplaceLines(f, l, d, t)
  \/ \E f \in Files : processChanges(f)
  \/ SaveTimerFires

Spec == Init /\ [][Next]_vars

(***************************************************************************)
(* A second scenario: two files are open, a third edit may arrive while a  *)
(* run is suspended, and the inputs are fewer: notes come from the note    *)
(* editor (no recorded neighbours), a line is retyped as "a", two lines    *)
(* are replaced by a paste of two, one whole line is deleted.              *)
(***************************************************************************)
TwoFiles == Files \cup {"b.ts"}

TwoFileInit ==
  /\ notes = NoNotes
  /\ nextId = 1
  /\ documents = [f \in TwoFiles |-> InitialDocument]
  /\ pendingChanges = [f \in TwoFiles |-> <<>>]
  /\ debounceTimers = [f \in TwoFiles |-> FALSE]
  /\ debounceTimer = "none"
  /\ task = Idle
  /\ last = NoRun
  /\ editCount = 0
  /\ awaitingNotify = NoEvent
  /\ now = 0
  /\ timeouts = [f \in TwoFiles |-> {}]
  /\ eventLog = [f \in TwoFiles |-> NoEdits]
  /\ call = NoCall
  /\ handler = NoHandler
  /\ repository = NewRepository
  /\ currentSession = NoSession

TwoFileNext ==
  \/ \E f \in TwoFiles, l \in 0..(MaxLines - 1) : AddNote(f, l, FALSE)
  \/ \E f \in TwoFiles, l \in 0..(MaxLines - 1) :
        editCount < MaxLateEdits /\ EditLine(f, l, "a")
  \/ \E f \in Files, l \in 0..(MaxLines - 1) :
        editCount < MaxLateEdits /\ ReplaceLines(f, l, 1, <<"b", "a">>)
  \/ \E f \in Files, l \in 0..(MaxLines - 1) :
        editCount < MaxLateEdits /\ DeleteLines(f, l, 1)
  \/ \E f \in TwoFiles : processChanges(f)
  \/ SaveTimerFires

TwoFileSpec == TwoFileInit /\ [][TwoFileNext]_vars

(***************************************************************************)
(* A third scenario, with time: 100 ms pass at each Tick, a timer of the   *)
(* line tracker fires 300 ms after it was set or later, and a note can be  *)
(* deleted from the note editor (NotesService.delete).                     *)
(***************************************************************************)
DeleteNote(id) ==
  /\ id \in DOMAIN notes
  /\ notes' = Remove(notes, {id})
  /\ debounceTimer' = "delete"
  /\ awaitingNotify' = [type |-> "deleted", noteIds |-> {id}]
  /\ task' = Stranded(task)
  /\ handler' = StrandedHandler(handler)
  /\ UNCHANGED <<currentSession, repository, nextId, documents, pendingChanges, debounceTimers, last, editCount,
                 now, timeouts, eventLog, call>>

Tick ==
  /\ now < MaxTime
  /\ now' = now + 1
  /\ UNCHANGED <<currentSession, repository, notes, nextId, documents, pendingChanges, debounceTimers,
                 debounceTimer, task, last, editCount, awaitingNotify, timeouts,
                 eventLog, call, handler>>

\* the timer that fires was set a quiet period ago or earlier
TimerDue(f) == \A t \in timeouts[f] \ timeouts'[f] : now >= t + QuietPeriod

TimedNext ==
  \/ \E f \in Files, l \in 0..(MaxLines - 1) : AddNote(f, l, FALSE)
  \/ \E id \in 1..MaxNotes : DeleteNote(id)
  \/ \E f \in Files, l \in 0..(MaxLines - 1) :
        editCount < MaxEdits /\ EditLine(f, l, "a")
  \/ \E f \in Files, l \in 0..(MaxLines - 1) :
        editCount < MaxEdits /\ InsertLines(f, l, <<"a">>)
  \/ \E f \in Files : processChanges(f) /\ TimerDue(f)
  \/ SaveTimerFires
  \/ Tick

TimedSpec == Init /\ [][TimedNext]_vars

(***************************************************************************)
(* The interface of the store as its callers see it: what a call leaves in *)
(* the index before it first awaits, what it returns, and the change       *)
(* events it fires once its save is done.  File paths are sequences of     *)
(* characters here, so that prefixes and slices are computed as the code   *)
(* computes them.                                                          *)
(***************************************************************************)
\* a slip: one event for each note
notifyEach(type, noteIds) ==
  [k \in 1..Len(noteIds) |-> [type |-> type, noteIds |-> <<noteIds[k]>>]]

\* saveAndNotify(type, noteIds, filePaths): one event with all the ids
saveAndNotify(type, noteIds) == <<[type |-> type, noteIds |-> noteIds]>>

\* the event held back by the save that a call armed, as awaitingNotify keeps it
HeldEvent(events) ==
  [type |-> events[Len(events)].type,
   noteIds |-> SeqToSet(events[Len(events)].noteIds)]

\* a slip: the note is put in the index only when the save is done
createOnSave(ns, id, options) ==
  [notes |-> ns,
   result |-> <<[filePath |-> options.filePath, lineNumber |-> options.lineNumber,
                 lineContent |-> options.lineContent,
                 lineContentHash |-> hashContent(options.lineContent),
                 surroundingContext |-> EmptyContext, text |-> options.text,
                 category |-> "note", status |-> "active"]>>,
   events |-> saveAndNotify("created", <<id>>)]

create(ns, id, options) ==
  LET note == [filePath |-> options.filePath, lineNumber |-> options.lineNumber,
               lineContent |-> options.lineContent,
               lineContentHash |-> hashContent(options.lineContent),
               surroundingContext |-> IF "surroundingContext" \in DOMAIN options
                                      THEN options.surroundingContext ELSE EmptyContext,
               text |-> options.text,
               category |-> IF "category" \in DOMAIN options THEN options.category
                            ELSE "note",
               status |-> "active"]
  IN [notes |-> [i \in DOMAIN ns \cup {id} |-> IF i = id THEN note ELSE ns[i]],
      result |-> <<note>>,
      events |-> saveAndNotify("created", <<id>>)]

\* update returns the note, or undefined: a sequence of one note or none
updateCall(ns, id, options) ==
  IF id \notin DOMAIN ns THEN [notes |-> ns, result |-> <<>>, events |-> <<>>]
  ELSE [notes |-> update(ns, id, options),
        result |-> <<update(ns, id, options)[id]>>,
        events |-> saveAndNotify("updated", <<id>>)]

deleteCall(ns, id) ==
  IF id \notin DOMAIN ns THEN [notes |-> ns, result |-> FALSE, events |-> <<>>]
  ELSE [notes |-> Remove(ns, {id}), result |-> TRUE,
        events |-> saveAndNotify("deleted", <<id>>)]

\* a slip: every id passed is taken as deleted
passedIds(ns, ids) == ids

\* the ids bulkDelete finds in the index, in the order it deletes them
RECURSIVE deletedIds(_, _)
deletedIds(ns, ids) ==
  IF ids = <<>> THEN <<>>
  ELSE IF Head(ids) \in DOMAIN ns
       THEN <<Head(ids)>> \o deletedIds(Remove(ns, {Head(ids)}), Tail(ids))
       ELSE deletedIds(ns, Tail(ids))

bulkDeleteCall(ns, ids) ==
  [notes |-> bulkDelete(ns, ids).notes,
   result |-> Len(deletedIds(ns, ids)),
   events |-> IF Len(deletedIds(ns, ids)) > 0
              THEN saveAndNotify("bulk-deleted", deletedIds(ns, ids)) ELSE <<>>]

\* the ids bulkUpdate finds in the index, one for each update it applies
RECURSIVE updatedIds(_, _)
updatedIds(ns, updates) ==
  IF updates = <<>> THEN <<>>
  ELSE IF Head(updates).id \in DOMAIN ns
       THEN <<Head(updates).id>> \o updatedIds(ns, Tail(updates))
       ELSE updatedIds(ns, Tail(updates))

bulkUpdateCall(ns, updates) ==
  [notes |-> bulkUpdate(ns, updates),
   result |-> Len(updatedIds(ns, updates)),
   events |-> IF Len(updatedIds(ns, updates)) > 0
              THEN saveAndNotify("bulk-updated", updatedIds(ns, updates)) ELSE <<>>]

deleteByFile(ns, filePath) == bulkDeleteCall(ns, getByFile(ns, filePath))

\* a slip: the renamed notes are re-anchored, as reanchor does
updateFilePathReanchors(ns, oldPath, newPath) ==
  [notes |-> [i \in DOMAIN ns |->
                IF ns[i].filePath = oldPath
                THEN [ns[i] EXCEPT !.filePath = newPath, !.status = "active"]
                ELSE ns[i]],
   result |-> Len(getByFile(ns, oldPath)),
   events |-> IF Len(getByFile(ns, oldPath)) > 0
              THEN saveAndNotify("bulk-updated", getByFile(ns, oldPath)) ELSE <<>>]

updateFilePath(ns, oldPath, newPath) ==
  [notes |-> [i \in DOMAIN ns |->
                IF ns[i].filePath = oldPath THEN [ns[i] EXCEPT !.filePath = newPath]
                ELSE ns[i]],
   result |-> Len(getByFile(ns, oldPath)),
   events |-> IF Len(getByFile(ns, oldPath)) > 0
              THEN saveAndNotify("bulk-updated", getByFile(ns, oldPath)) ELSE <<>>]

(***************************************************************************)
(* NotesFileTracker.  A path is a sequence of characters.                  *)
(***************************************************************************)
startsWith(str, prefix) ==
  Len(prefix) <= Len(str) /\ SubSeq(str, 1, Len(prefix)) = prefix

\* str.slice(n)
slice(str, n) == SubSeq(str, n + 1, Len(str))

\* the collation order of the characters that paths are made of
CharRank(c) ==
  CASE c = "/" -> 0 [] c = "a" -> 1 [] c = "b" -> 2 [] c = "c" -> 3 [] c = "x" -> 4

\* a.localeCompare(b) < 0, for paths of lower-case letters and slashes
RECURSIVE comesBefore(_, _)
comesBefore(a, b) ==
  IF b = <<>> THEN FALSE
  ELSE IF a = <<>> THEN TRUE
  ELSE IF Head(a) = Head(b) THEN comesBefore(Tail(a), Tail(b))
  ELSE CharRank(Head(a)) < CharRank(Head(b))

\* getAll: the ids sorted by filePath, then lineNumber (stable)
RECURSIVE SortedByPath(_, _)
SortedByPath(ns, ids) ==
  IF ids = {} THEN <<>>
  ELSE LET first == CHOOSE i \in ids : \A j \in ids \ {i} :
                      \/ comesBefore(ns[i].filePath, ns[j].filePath)
                      \/ /\ ns[i].filePath = ns[j].filePath
                         /\ \/ ns[i].lineNumber < ns[j].lineNumber
                            \/ (ns[i].lineNumber = ns[j].lineNumber /\ i < j)
       IN <<first>> \o SortedByPath(ns, ids \ {first})

getAll(ns) == SortedByPath(ns, DOMAIN ns)

\* lines 204-210: one path update for each note under the renamed folder
RECURSIVE folderUpdates(_, _, _, _)
folderUpdates(ns, ids, oldPath, newPath) ==
  IF ids = <<>> THEN <<>>
  ELSE (IF \/ startsWith(ns[Head(ids)].filePath, oldPath \o <<"/">>)
           \/ ns[Head(ids)].filePath = oldPath
        THEN <<[oldPath |-> ns[Head(ids)].filePath,
                newPath |-> newPath \o slice(ns[Head(ids)].filePath, Len(oldPath))]>>
        ELSE <<>>) \o folderUpdates(ns, Tail(ids), oldPath, newPath)

\* lines 202-217
pathUpdates(ns, oldPath, newPath, isDirectory) ==
  IF isDirectory THEN folderUpdates(ns, getAll(ns), oldPath, newPath)
  ELSE IF getByFile(ns, oldPath) # <<>>
       THEN <<[oldPath |-> oldPath, newPath |-> newPath]>>
       ELSE <<>>

\* a slip: only the notes of the path itself are deleted
pathsOfFileOnly(ns, filePath) ==
  IF getByFile(ns, filePath) # <<>> THEN <<filePath>> ELSE <<>>

\* lines 246-253: the paths of the notes under filePath, each once
RECURSIVE nestedPaths(_, _, _, _)
nestedPaths(ns, ids, filePath, found) ==
  IF ids = <<>> THEN found
  ELSE nestedPaths(ns, Tail(ids), filePath,
                   IF /\ startsWith(ns[Head(ids)].filePath, filePath \o <<"/">>)
                      /\ ns[Head(ids)].filePath \notin SeqToSet(found)
                   THEN Append(found, ns[Head(ids)].filePath) ELSE found)

\* lines 238-253
pathsToDelete(ns, filePath) ==
  nestedPaths(ns, getAll(ns), filePath,
              IF getByFile(ns, filePath) # <<>> THEN <<filePath>> ELSE <<>>)

\* the handler goes through its queue, one awaited call of the store after
\* the other, up to the first call that saves
RECURSIVE Resume(_, _)
Resume(ns, h) ==
  IF h.queue = <<>>
  THEN [notes |-> ns, handler |-> [h EXCEPT !.phase = "done"], events |-> <<>>]
  ELSE LET r == IF h.kind = "rename"
                THEN updateFilePath(ns, Head(h.queue).oldPath, Head(h.queue).newPath)
                ELSE deleteByFile(ns, Head(h.queue))
       IN IF r.events # <<>>
          THEN [notes |-> r.notes,
                handler |-> [h EXCEPT !.phase = "waiting", !.queue = Tail(@)],
                events |-> r.events,
                op |-> IF h.kind = "rename" THEN "updateFilePath" ELSE "deleteByFile",
                args |-> IF h.kind = "rename" THEN Head(h.queue)
                         ELSE [filePath |-> Head(h.queue)],
                before |-> ns, result |-> r.result]
          ELSE Resume(r.notes, [h EXCEPT !.queue = Tail(@)])

\* the handler h starts, or resumes after the save it awaited; count is the
\* number of calls and file events so far
FileTrackerStep(h, count) ==
  \E r \in {Resume(notes, h)} :
    /\ notes' = r.notes
    /\ handler' = r.handler
    /\ IF r.events # <<>>
       THEN /\ debounceTimer' = "fileTracker"
            /\ awaitingNotify' = HeldEvent(r.events)
            /\ task' = Stranded(task)
            /\ call' = [op |-> r.op, args |-> r.args, before |-> r.before,
                        after |-> r.notes, result |-> r.result, events |-> r.events,
                        count |-> count]
       ELSE /\ debounceTimer' = IF debounceTimer = "fileTracker" THEN "none"
                                ELSE debounceTimer
            /\ awaitingNotify' = IF debounceTimer = "fileTracker" THEN NoEvent
                                 ELSE awaitingNotify
            /\ call' = [call EXCEPT !.count = count]
            /\ UNCHANGED task

\* handleFileRename, lines 188-224, from the answer of isDirectory on
handleFileRename(oldPath, newPath, isDirectory) ==
  /\ call.count < MaxCalls
  /\ handler.phase # "waiting"
  /\ FileTrackerStep([kind |-> "rename", phase |-> "start", oldPath |-> oldPath,
                      newPath |-> newPath, isDirectory |-> isDirectory,
                      queue |-> pathUpdates(notes, oldPath, newPath, isDirectory),
                      before |-> notes, event |-> call.count + 1], call.count + 1)
  /\ UNCHANGED <<currentSession, repository, nextId, documents, pendingChanges, debounceTimers, last, editCount,
                 now, timeouts, eventLog>>

\* handleFileDelete, lines 229-260
handleFileDelete(filePath) ==
  /\ call.count < MaxCalls
  /\ handler.phase # "waiting"
  /\ FileTrackerStep([kind |-> "delete", phase |-> "start", oldPath |-> filePath,
                      newPath |-> <<>>, isDirectory |-> FALSE,
                      queue |-> pathsToDelete(notes, filePath), before |-> notes,
                      event |-> call.count + 1], call.count + 1)
  /\ UNCHANGED <<currentSession, repository, nextId, documents, pendingChanges, debounceTimers, last, editCount,
                 now, timeouts, eventLog>>

\* the save that the handler of the file tracker awaits is done
FileTrackerResumes ==
  /\ debounceTimer = "fileTracker"
  /\ handler.phase = "waiting"
  /\ FileTrackerStep(handler, call.count)
  /\ UNCHANGED <<currentSession, repository, nextId, documents, pendingChanges, debounceTimers, last, editCount,
                 now, timeouts, eventLog>>

(***************************************************************************)
(* A fourth scenario: the panels, the commands and the file tracker call   *)
(* the store, with ids it holds and ids it does not.                       *)
(***************************************************************************)
FileInDir == <<"a", "/", "b", "/", "x">>
FileDeeper == <<"a", "/", "b", "/", "a", "/", "b">>
FileBeside == <<"a", "/", "a", "b">>
NotePaths == {FileInDir, FileDeeper, FileBeside}

RenamedFolder == <<"a", "/", "b">>
FolderRenamedTo == <<"a", "/", "c">>
FileRenamedTo == <<"a", "/", "b", "b">>
DeletedPaths == {RenamedFolder, FileInDir, <<"a">>}

\* the ids a caller may pass: those of the notes ever created and one more
CallerIds == 1..(MaxNotes + 1)

UpdateOptions == {[status |-> "orphaned"], [lineNumber |-> 1], [lineContent |-> ""]}
BulkOptions == {[category |-> "todo"], [lineNumber |-> 1]}

IdLists ==
  {<<>>} \cup {<<i>> : i \in CallerIds} \cup {<<i, j>> : i, j \in CallerIds}

UpdateLists ==
  {<<>>} \cup {<<[id |-> i, options |-> o]>> : i \in CallerIds, o \in BulkOptions}
         \cup {<<[id |-> i, options |-> [category |-> "todo"]],
                 [id |-> j, options |-> o]>> : i, j \in CallerIds, o \in BulkOptions}

\* a caller calls the store: r is what the call does before it first awaits
StoreCall(op, args, r) ==
  /\ call.count < MaxCalls
  /\ notes' = r.notes
  /\ call' = [op |-> op, args |-> args, before |-> notes, after |-> r.notes,
              result |-> r.result, events |-> r.events, count |-> call.count + 1]
  /\ IF r.events # <<>>
     THEN /\ debounceTimer' = "store"
          /\ awaitingNotify' = HeldEvent(r.events)
          /\ task' = Stranded(task)
          /\ handler' = StrandedHandler(handler)
     ELSE UNCHANGED <<debounceTimer, awaitingNotify, task, handler>>
  /\ UNCHANGED <<currentSession, repository, nextId, documents, pendingChanges, debounceTimers, last, editCount,
                 now, timeouts, eventLog>>

\* the note editor creates a note on the cursor line
StoreCreate(filePath, lineNumber) ==
  /\ nextId <= MaxNotes
  /\ \E r \in {create(notes, nextId,
                        [filePath |-> filePath, lineNumber |-> lineNumber,
                         lineContent |-> "a", text |-> "t"])} :
       /\ notes' = r.notes
       /\ call' = [op |-> "create", args |-> [id |-> nextId], before |-> notes,
                   after |-> r.notes, result |-> r.result, events |-> r.events,
                   count |-> call.count]
       /\ awaitingNotify' = HeldEvent(r.events)
  /\ nextId' = nextId + 1
  /\ debounceTimer' = "store"
  /\ task' = Stranded(task)
  /\ handler' = StrandedHandler(handler)
  /\ UNCHANGED <<currentSession, repository, documents, pendingChanges, debounceTimers, last, editCount,
                 now, timeouts, eventLog>>

StoreNext ==
  \/ \E p \in NotePaths, l \in 0..1 : StoreCreate(p, l)
  \/ \E id \in CallerIds, o \in UpdateOptions :
        StoreCall("update", [id |-> id, options |-> o], updateCall(notes, id, o))
  \/ \E id \in CallerIds :
        StoreCall("delete", [id |-> id], deleteCall(notes, id))
  \/ \E ids \in IdLists :
        StoreCall("bulkDelete", [ids |-> ids], bulkDeleteCall(notes, ids))
  \/ \E us \in UpdateLists :
        StoreCall("bulkUpdate", [updates |-> us], bulkUpdateCall(notes, us))
  \/ \E p \in NotePaths :
        StoreCall("deleteByFile", [filePath |-> p], deleteByFile(notes, p))
  \/ \E p, q \in NotePaths :
        StoreCall("updateFilePath", [oldPath |-> p, newPath |-> q],
                  updateFilePath(notes, p, q))
  \/ handleFileRename(RenamedFolder, FolderRenamedTo, TRUE)
  \/ \E p \in NotePaths, q \in {FileBeside, FileRenamedTo} :
        p # q /\ handleFileRename(p, q, FALSE)
  \/ \E p \in DeletedPaths : handleFileDelete(p)
  \/ FileTrackerResumes
  \/ SaveTimerFires

StoreSpec == Init /\ [][StoreNext]_vars

(***************************************************************************)
(* Properties.  They are stated over `last`, the record of the latest run  *)
(* of processChanges: the store when it started (before), the sorted batch *)
(* (changes), the store as its latest step left it (after) and the         *)
(* document it read.                                                       *)
(***************************************************************************)
\* the notes of the reconciled file when the run started
Tracked == {i \in DOMAIN last.before : last.before[i].filePath = last.file}

\* the run got past classification
Classified == last.kind \in {"classified", "applied"}

\* net line delta of a range, from its fields
NetDelta(c) == (Len(c.text) - 1) - (c.endLine - c.startLine)

\* a range that removes whole lines and inserts nothing
PureDeletionRange(c) == c.endLine > c.startLine /\ c.text = <<"">>

\* a range that leaves the line count alone and stays on one line
SingleLineRange(c) == c.endLine = c.startLine /\ Len(c.text) = 1

ComplexRange(c) == ~PureDeletionRange(c) /\ ~SingleLineRange(c)

\* C1: a batch of one range with net delta k is reconciled, and every note
\* that was strictly below the range's endLine is then k lines further down
\* with its status and line content unchanged.
C1_ShiftInvariant ==
  (last.kind # "none" /\ Len(last.changes) = 1) =>
    /\ last.kind # "diverged"
    /\ last.kind = "applied" =>
         \A i \in Tracked :
           last.before[i].lineNumber > last.changes[1].endLine =>
             /\ i \in DOMAIN last.after
             /\ last.after[i].lineNumber =
                  last.before[i].lineNumber + NetDelta(last.changes[1])
             /\ last.after[i].status = last.before[i].status
             /\ last.after[i].lineContent = last.before[i].lineContent

\* C2: the classification loop of every run ends: no run is left iterating
\* the live map without end.
C2_ClassificationTerminates == last.kind # "diverged"

\* a run is only marked as never ending when a range with a positive line
\* delta has a tracked note below it (the walk of a negative delta ends)
DivergenceIsGrowth ==
  last.kind = "diverged" =>
    \E j \in 1..Len(last.changes) : NetDelta(last.changes[j]) > 0

\* an iteration that ends visits no more entries than the document may
\* have lines, well below MaxVisits
EndingWalkIsShort == Classified => last.visits <= MaxLines

\* C3 as stated: once the deletions of a run are applied, no note that was
\* anchored inside a pure-deletion range of the batch is in the store.
C3_PureDeletionAlways ==
  Classified =>
    \A j \in 1..Len(last.changes) : \A i \in Tracked :
      ( /\ PureDeletionRange(last.changes[j])
        /\ last.before[i].lineNumber >= last.changes[j].startLine
        /\ last.before[i].lineNumber <= last.changes[j].endLine )
      => i \notin DOMAIN last.after

\* C3 amended: once the deletions of a run are applied, a note that was
\* anchored inside a pure-deletion range of the batch is out of the store,
\* unless a complex range processed earlier in the batch had already marked
\* it for orphaning.
C3_PureDeletion ==
  Classified =>
    \A j \in 1..Len(last.changes) : \A i \in Tracked :
      ( /\ PureDeletionRange(last.changes[j])
        /\ last.before[i].lineNumber >= last.changes[j].startLine
        /\ last.before[i].lineNumber <= last.changes[j].endLine )
      => \/ i \notin DOMAIN last.after
         \/ /\ i \in SeqToSet(last.notesToOrphan)
            /\ \E e \in 1..(j - 1) : ComplexRange(last.changes[e])

\* a run deleted a note that was anchored inside a pure-deletion range
C3_Witness ==
  /\ Classified
  /\ \E j \in 1..Len(last.changes) : \E i \in Tracked :
       /\ PureDeletionRange(last.changes[j])
       /\ last.before[i].lineNumber >= last.changes[j].startLine
       /\ last.before[i].lineNumber <= last.changes[j].endLine
       /\ i \notin DOMAIN last.after

\* C4: when the d whole lines above line L are deleted, from (L - d, 0) to
\* (L, 0), the run ends and every note anchored at line L or below is still
\* in the store, d lines further up.
C4_DeletionAboveShifts ==
  (last.kind # "none" /\ Len(last.changes) = 1 /\ PureDeletionRange(last.changes[1])) =>
    /\ last.kind # "diverged"
    /\ \A i \in Tracked :
         last.before[i].lineNumber >= last.changes[1].endLine =>
           /\ i \in DOMAIN last.after
           /\ last.kind = "applied" =>
                last.after[i].lineNumber =
                  last.before[i].lineNumber
                    - (last.changes[1].endLine - last.changes[1].startLine)

\* the text of document line l of the run's document
DocLine(l) == last.document[l + 1]

DocLines == 0..(Len(last.document) - 1)

\* C5: when every range of the batch is a single-line edit on the line of
\* a note and the fingerprint of the document's text at that line is the
\* note's stored one, the run leaves the note's lineNumber, status and
\* lineContent as they were.
C5_ContentStability ==
  last.kind = "applied" =>
    \A i \in Tracked :
      ( /\ \A j \in 1..Len(last.changes) :
             /\ SingleLineRange(last.changes[j])
             /\ last.changes[j].startLine = last.before[i].lineNumber
        /\ last.before[i].lineNumber \in DocLines
        /\ last.before[i].lineContentHash = <<"md5", DocLine(last.before[i].lineNumber)>> )
      => /\ i \in DOMAIN last.after
         /\ last.after[i].lineNumber = last.before[i].lineNumber
         /\ last.after[i].status = last.before[i].status
         /\ last.after[i].lineContent = last.before[i].lineContent

\* a batch of single-line edits on the line of a note whose text still has
\* the stored fingerprint has been reconciled, and the note is where it was
C5_Witness ==
  /\ last.kind = "applied"
  /\ \E i \in Tracked :
       /\ \A j \in 1..Len(last.changes) :
            /\ SingleLineRange(last.changes[j])
            /\ last.changes[j].startLine = last.before[i].lineNumber
       /\ last.before[i].lineNumber \in DocLines
       /\ last.before[i].lineContentHash = <<"md5", DocLine(last.before[i].lineNumber)>>
       /\ i \in DOMAIN last.after
       /\ last.after[i] = last.before[i]

\* note i was queued for content verification at a line of the document
\* whose text no longer has the note's fingerprint
Mismatch(i) ==
  \E u \in 1..Len(last.notesToUpdate) :
    /\ last.notesToUpdate[u].id = i
    /\ last.notesToUpdate[u].needsVerification
    /\ last.notesToUpdate[u].lineNumber \in DocLines
    /\ last.read[i].lineContentHash # <<"md5", DocLine(last.notesToUpdate[u].lineNumber)>>

\* note i was queued for content verification at a line of the document
\* whose text is no longer the note's lineContent
TextChanged(i) ==
  \E u \in 1..Len(last.notesToUpdate) :
    /\ last.notesToUpdate[u].id = i
    /\ last.notesToUpdate[u].needsVerification
    /\ last.notesToUpdate[u].lineNumber \in DocLines
    /\ last.read[i].lineContent # DocLine(last.notesToUpdate[u].lineNumber)

\* the document lines equal to the lineContent of note i
SameText(i) == {l \in DocLines : DocLine(l) = last.read[i].lineContent}

\* a neighbour was recorded for note i: the field is present, blank or not
BeforeRecorded(i) == last.read[i].surroundingContext.lineBefore # Undefined
AfterRecorded(i) == last.read[i].surroundingContext.lineAfter # Undefined

\* line l satisfies every recorded constraint of note i
SatisfiesContext(i, l) ==
  /\ BeforeRecorded(i) =>
       (l > 0 /\ DocLine(l - 1) = last.read[i].surroundingContext.lineBefore)
  /\ AfterRecorded(i) =>
       (l < Len(last.document) - 1
        /\ DocLine(l + 1) = last.read[i].surroundingContext.lineAfter)

\* the lines the context step accepts for note i, by the documented rule
SameContext(i) ==
  {l \in DocLines : (BeforeRecorded(i) \/ AfterRecorded(i)) /\ SatisfiesContext(i, l)}

Neighbours(l) ==
  [lineBefore |-> IF l > 0 THEN DocLine(l - 1) ELSE Undefined,
   lineAfter |-> IF l < Len(last.document) - 1 THEN DocLine(l + 1) ELSE Undefined]

\* C6: when a single-line edit changed the text of a note's line, no line
\* of the document equals its lineContent and no line matches a recorded
\* context, the note ends orphaned with lineNumber, lineContent,
\* lineContentHash and surroundingContext as they were.
C6_FailureOrphansAndPreserves ==
  last.kind = "applied" =>
    \A i \in DOMAIN last.read :
      (TextChanged(i) /\ SameText(i) = {} /\ SameContext(i) = {})
      => /\ i \in DOMAIN last.after
         /\ last.after[i] = [last.read[i] EXCEPT !.status = "orphaned"]

\* C7: when verification finds a fingerprint mismatch and some line of the
\* document equals the note's lineContent, the note ends active on the
\* lowest such line, with that line's text, fingerprint and neighbours.
C7_ExactMatchWins ==
  last.kind = "applied" =>
    \A i \in DOMAIN last.read :
      (Mismatch(i) /\ SameText(i) # {})
      => /\ i \in DOMAIN last.after
         /\ last.after[i].status = "active"
         /\ last.after[i].lineNumber = Lowest(SameText(i))
         /\ last.after[i].lineContent = DocLine(Lowest(SameText(i)))
         /\ last.after[i].lineContentHash = <<"md5", DocLine(Lowest(SameText(i)))>>
         /\ last.after[i].surroundingContext = Neighbours(Lowest(SameText(i)))

\* C8: after a complex edit over a note's line, when exactly one line of
\* the document, not the note's old one, equals its lineContent, the note
\* is on that line and active.
C8_RelocationAfterComplexEdit ==
  (last.kind = "applied" /\ Len(last.changes) = 1 /\ ComplexRange(last.changes[1])) =>
    \A i \in Tracked : \A l \in DocLines :
      ( /\ last.before[i].lineNumber >= last.changes[1].startLine
        /\ last.before[i].lineNumber <= last.changes[1].endLine
        /\ {m \in DocLines : DocLine(m) = last.before[i].lineContent} = {l}
        /\ l # last.before[i].lineNumber )
      => /\ i \in DOMAIN last.after
         /\ last.after[i].lineNumber = l
         /\ last.after[i].status = "active"

\* C9: when verification finds a mismatch, no line of the document equals
\* the note's lineContent and exactly one line matches the recorded
\* context, the note ends active on that line.
C9_ContextFallback ==
  last.kind = "applied" =>
    \A i \in DOMAIN last.read : \A l \in DocLines :
      (Mismatch(i) /\ SameText(i) = {} /\ SameContext(i) = {l})
      => /\ i \in DOMAIN last.after
         /\ last.after[i].lineNumber = l
         /\ last.after[i].status = "active"

\* C10: for a note whose relocation reached the context step, the step is
\* attempted exactly when a neighbour was recorded, blank or not, and it
\* accepts exactly the lines that satisfy every recorded constraint.
C10_ContextPredicateExact ==
  last.kind = "applied" =>
    \A i \in DOMAIN last.read :
      (Mismatch(i) /\ SameText(i) = {})
      => /\ ContextRecorded(last.read[i]) <=> (BeforeRecorded(i) \/ AfterRecorded(i))
         /\ \A l \in DocLines :
              (beforeMatch(last.document, last.read[i], l)
                 /\ afterMatch(last.document, last.read[i], l))
              <=> SatisfiesContext(i, l)

(***************************************************************************)
(* What is left of C6, C7 and C9 once blank lines are set aside: the       *)
(* relocation resolver treats a blank recorded neighbour as not recorded,  *)
(* and the store does not refresh the fingerprint of a blank lineContent.  *)
(***************************************************************************)
\* no recorded neighbour of note i is a blank line
NoBlankNeighbour(i) ==
  /\ last.read[i].surroundingContext.lineBefore # ""
  /\ last.read[i].surroundingContext.lineAfter # ""

\* the stored fingerprint of note i is the one of its lineContent
FreshFingerprint(i) == last.read[i].lineContentHash = <<"md5", last.read[i].lineContent>>

\* resolution failure orphans and preserves, for notes without a blank
\* recorded neighbour
OrphaningWithoutBlankNeighbours ==
  last.kind = "applied" =>
    \A i \in DOMAIN last.read :
      (TextChanged(i) /\ SameText(i) = {} /\ SameContext(i) = {}
       /\ NoBlankNeighbour(i) /\ FreshFingerprint(i))
      => /\ i \in DOMAIN last.after
         /\ last.after[i] = [last.read[i] EXCEPT !.status = "orphaned"]

\* the exact match wins and refreshes the anchor, for notes whose
\* lineContent is not blank
ExactMatchOnNonBlankLine ==
  last.kind = "applied" =>
    \A i \in DOMAIN last.read :
      (Mismatch(i) /\ SameText(i) # {} /\ last.read[i].lineContent # "")
      => /\ i \in DOMAIN last.after
         /\ last.after[i].status = "active"
         /\ last.after[i].lineNumber = Lowest(SameText(i))
         /\ last.after[i].lineContent = DocLine(Lowest(SameText(i)))
         /\ last.after[i].lineContentHash = <<"md5", DocLine(Lowest(SameText(i)))>>
         /\ last.after[i].surroundingContext = Neighbours(Lowest(SameText(i)))

\* the context fallback, for notes without a blank recorded neighbour
FallbackWithoutBlankNeighbours ==
  last.kind = "applied" =>
    \A i \in DOMAIN last.read : \A l \in DocLines :
      (Mismatch(i) /\ SameText(i) = {} /\ SameContext(i) = {l} /\ NoBlankNeighbour(i))
      => /\ i \in DOMAIN last.after
         /\ last.after[i].lineNumber = l
         /\ last.after[i].status = "active"


\* note i was anchored inside range c when the run started
InRange(i, c) ==
  /\ last.before[i].lineNumber >= c.startLine
  /\ last.before[i].lineNumber <= c.endLine

\* C11: once a batch is applied, every note whose line is within a complex
\* range of the batch and that was not marked for deletion is orphaned, with
\* lineNumber and lineContent as they were, whatever else the batch queued.
C11_ComplexEditOrphans ==
  last.kind = "applied" =>
    \A j \in 1..Len(last.changes) : \A i \in Tracked :
      ( /\ ComplexRange(last.changes[j])
        /\ InRange(i, last.changes[j])
        /\ i \notin SeqToSet(last.notesToDelete) )
      => /\ i \in DOMAIN last.after
         /\ last.after[i].status = "orphaned"
         /\ last.after[i].lineNumber = last.before[i].lineNumber
         /\ last.after[i].lineContent = last.before[i].lineContent


\* the classification of the run after its first k ranges
Snapshot(k) == Classify(last.before, last.file, SubSeq(last.changes, 1, k))

\* note i is marked for deletion or for orphaning in classification st
Marked(st, i) == i \in SeqToSet(st.notesToDelete) \/ i \in SeqToSet(st.notesToOrphan)

\* how often note i occurs in a sequence of ids
Occurrences(ids, i) == Cardinality({n \in 1..Len(ids) : ids[n] = i})

\* the queued updates of note i, in order
UpdatesOf(st, i) == SelectSeq(st.notesToUpdate, LAMBDA u : u.id = i)

\* the lines under which the live map tracks note i
TrackedLines(st, i) ==
  {st.noteLineMap[n].key : n \in {m \in 1..Len(st.noteLineMap) :
                                     i \in SeqToSet(st.noteLineMap[m].notes)}}

\* C12: a note marked for deletion or orphaning after the first k ranges of
\* a batch is in the same outcome set, once, after every later range, with
\* the same queued updates and the same tracked line.
C12_NoReclassification ==
  last.kind # "none" =>
    \A k \in 1..Len(last.changes) : \A m \in (k + 1)..Len(last.changes) :
      ~Snapshot(m).diverged =>
        \A i \in Tracked :
          Marked(Snapshot(k), i) =>
            /\ Occurrences(Snapshot(m).notesToDelete, i)
                 = Occurrences(Snapshot(k).notesToDelete, i)
            /\ Occurrences(Snapshot(m).notesToOrphan, i)
                 = Occurrences(Snapshot(k).notesToOrphan, i)
            /\ Occurrences(Snapshot(m).notesToDelete, i)
                 + Occurrences(Snapshot(m).notesToOrphan, i) = 1
            /\ UpdatesOf(Snapshot(m), i) = UpdatesOf(Snapshot(k), i)
            /\ TrackedLines(Snapshot(m), i) = TrackedLines(Snapshot(k), i)

\* a note marked for orphaning by the first range of a batch is on a line
\* that the second range covers or lies above, and the batch is classified
C12_Witness ==
  /\ Classified
  /\ Len(last.changes) = 2
  /\ \E i \in Tracked :
       /\ i \in SeqToSet(Snapshot(1).notesToOrphan)
       /\ \A l \in TrackedLines(Snapshot(1), i) : l >= last.changes[2].startLine
       /\ ~SingleLineRange(last.changes[2]) \/ InRange(i, last.changes[2])
       /\ i \in SeqToSet(last.notesToOrphan)
       /\ i \notin SeqToSet(last.notesToDelete)


\* C13: a note that was orphaned when a run started, and whose line no
\* range of the batch covers, has the same lineNumber and status after it.
C13_OrphanTerminality ==
  Classified =>
    \A i \in Tracked :
      ( /\ last.before[i].status = "orphaned"
        /\ \A j \in 1..Len(last.changes) : ~InRange(i, last.changes[j]) )
      => /\ i \in DOMAIN last.after
         /\ last.after[i].lineNumber = last.before[i].lineNumber
         /\ last.after[i].status = last.before[i].status


\* the step is a run of processChanges for file f: it takes the batch
ReconcilerStep(f) == pendingChanges[f] # <<>> /\ pendingChanges'[f] = <<>>

\* the step resumes the suspended run
ResumeStep ==
  /\ debounceTimer = "processChanges"
  /\ task.phase = "orphan"
  /\ pendingChanges' = pendingChanges
  /\ nextId' = nextId
  /\ editCount' = editCount

\* C14: no step of the edit reconciler, started or resumed, removes from the
\* store a note whose status is orphaned.
C14_OrphansNeverAutoDeleted ==
  [][ ((\E f \in DOMAIN pendingChanges : ReconcilerStep(f)) \/ ResumeStep) =>
        \A i \in DOMAIN notes :
          notes[i].status = "orphaned" => i \in DOMAIN notes' ]_vars


\* the bulk update the latest run passed to the store
Written == bulkUpdates(last.read, last.document, last.notesToUpdate)

\* C16: every lineNumber a run writes to the store, by shift or by
\* relocation, is a line of the document the run read.
C16_WrittenLineInRange ==
  last.kind = "applied" =>
    \A u \in 1..Len(Written) :
      "lineNumber" \in DOMAIN Written[u].options =>
        /\ Written[u].options.lineNumber >= 0
        /\ Written[u].options.lineNumber < Len(last.document)


\* C17: every note of the store carries the fingerprint of its lineContent.
C17_FingerprintInvariant ==
  \A i \in DOMAIN notes : notes[i].lineContentHash = hashContent(notes[i].lineContent)


\* a run is suspended at an await with part of its outcomes applied: what
\* is left of it would still change the store
PartlyApplied ==
  /\ task.phase \in {"orphan", "stranded"}
  /\ Run(notes, documents[task.file], task).notes # notes

\* the step is a handler other than the continuation of the suspended run:
\* a note is created, an edit event is delivered, or a run starts
OtherHandlerStep ==
  \/ nextId' # nextId
  \/ editCount' # editCount
  \/ \E f \in DOMAIN pendingChanges : ReconcilerStep(f)

\* C19: no other handler runs while the store holds only part of the
\* outcomes of a batch.
C19_BatchApplicationAtomic == [][PartlyApplied => ~OtherHandlerStep]_vars


\* note i was queued for content verification at a line that the document
\* the run read does not have
StaleAnchor(i) ==
  \E u \in 1..Len(last.notesToUpdate) :
    /\ last.notesToUpdate[u].id = i
    /\ last.notesToUpdate[u].needsVerification
    /\ last.notesToUpdate[u].lineNumber \notin DocLines

\* C15: a note queued for content verification at a line beyond the
\* document ends the run orphaned.
C15_StaleAnchorOrphaned ==
  last.kind = "applied" =>
    \A i \in DOMAIN last.read :
      StaleAnchor(i) =>
        /\ i \in DOMAIN last.after
        /\ last.after[i].status = "orphaned"


\* the step is the save timer firing: the held-back change event is fired
SaveTimerStep ==
  /\ debounceTimer # "none"
  /\ nextId' = nextId
  /\ editCount' = editCount
  /\ pendingChanges' = pendingChanges

\* C18: the change event of a mutating call is not given up: it stays due
\* until the step that fires it, whatever calls are made in between.
C18_EveryMutationNotified ==
  [][awaitingNotify # NoEvent => (awaitingNotify' = awaitingNotify \/ SaveTimerStep)]_vars


\* the step delivers an edit event for file f
EditStep(f) == editCount' # editCount /\ pendingChanges'[f] # pendingChanges[f]

\* the run of file f is suspended at an await with outcomes still to apply
SuspendedRun(f) == PartlyApplied /\ task.phase = "orphan" /\ task.file = f

\* C20: an edit event for one file leaves the accumulated ranges and the
\* timer of every other file as they were, and a run of one file that is
\* suspended with outcomes still to apply is still due to apply them after
\* a reconciliation of another file.
C20_PerFileIndependence ==
  [][ \A a \in DOMAIN pendingChanges : \A b \in DOMAIN pendingChanges \ {a} :
        /\ EditStep(a) => /\ pendingChanges'[b] = pendingChanges[b]
                          /\ debounceTimers'[b] = debounceTimers[b]
        /\ (SuspendedRun(b) /\ ReconcilerStep(a)) => task' = task ]_vars


\* the step delivers an edit event
EditEventStep == editCount' # editCount

\* C21 as stated: a file has at most one timer scheduled, a run of
\* processChanges starts a quiet period or more after the file's latest
\* edit event, and its batch has a range for every event delivered for the
\* file since its previous run.
C21_Debounce ==
  [][ \A f \in DOMAIN pendingChanges :
        /\ Cardinality(timeouts'[f]) <= 1
        /\ ReconcilerStep(f) =>
              /\ now - eventLog[f].at >= QuietPeriod
              /\ Len(pendingChanges[f]) = eventLog[f].ranges ]_vars

\* C21, amended: the same, counting the edit events that were delivered
\* while the file had a note; an event for a file without notes is dropped.
C21_DebounceOfTrackedFile ==
  [][ \A f \in DOMAIN pendingChanges :
        /\ Cardinality(timeouts'[f]) <= 1
        /\ ReconcilerStep(f) =>
              /\ now - eventLog[f].trackedAt >= QuietPeriod
              /\ Len(pendingChanges[f]) = eventLog[f].trackedRanges
              /\ last'.changes = sortedChanges(pendingChanges[f]) ]_vars

\* a run has taken a batch of two events, the later of which came after
\* time 0, a quiet period or more before now
C21_Witness ==
  /\ last.kind # "none"
  /\ Len(last.changes) >= 2
  /\ eventLog[last.file].trackedAt > 0
  /\ now >= eventLog[last.file].trackedAt + QuietPeriod


\* the notes a bulk call of the store is about, from its arguments and the
\* index it found
Affected(c) ==
  CASE c.op = "bulkDelete" -> SeqToSet(c.args.ids) \cap DOMAIN c.before
    [] c.op = "bulkUpdate" ->
         {c.args.updates[k].id : k \in 1..Len(c.args.updates)} \cap DOMAIN c.before
    [] c.op = "deleteByFile" ->
         {i \in DOMAIN c.before : c.before[i].filePath = c.args.filePath}
    [] c.op = "updateFilePath" ->
         {i \in DOMAIN c.before : c.before[i].filePath = c.args.oldPath}

BulkOps == {"bulkDelete", "bulkUpdate", "deleteByFile", "updateFilePath"}

\* C22: a bulk call that affects notes fires one change event, which lists
\* the ids of all of them; a bulk call that affects none fires no event.
C22_OneAggregateEvent ==
  call.op \in BulkOps =>
    IF Affected(call) = {} THEN call.events = <<>>
    ELSE /\ Len(call.events) = 1
         /\ SeqToSet(call.events[1].noteIds) = Affected(call)
         /\ awaitingNotify = HeldEvent(call.events) \/ debounceTimer = "none"

\* a bulk call has affected two notes at once
C22_Witness ==
  /\ call.op \in BulkOps
  /\ Cardinality(Affected(call)) = 2


\* the step is a run of processChanges, started or resumed, calling
\* markOrphaned
OrphaningStep ==
  /\ (\E f \in DOMAIN pendingChanges : ReconcilerStep(f)) \/ ResumeStep
  /\ awaitingNotify'.type = "updated"

\* the step is a run of processChanges making its final bulk update
UpdatingStep == last' # last /\ last'.kind = "applied"

\* C23: when a run orphans, its deletions are in the store, all the notes
\* it marked for orphaning are orphaned together and one change event lists
\* them; when it makes its relocations and line-number updates, its
\* deletions and orphanings are in the store.
C23_OrderedBulkApplication ==
  [][ /\ OrphaningStep =>
           /\ \A i \in SeqToSet(task'.notesToDelete) : i \notin DOMAIN notes'
           /\ \A i \in SeqToSet(task'.notesToOrphan) \cap DOMAIN notes' :
                 notes'[i].status = "orphaned"
           /\ awaitingNotify'.noteIds = SeqToSet(task'.notesToOrphan) \cap DOMAIN notes'
      /\ UpdatingStep =>
           /\ \A i \in SeqToSet(last'.notesToDelete) : i \notin DOMAIN last'.read
           /\ \A i \in SeqToSet(last'.notesToOrphan) \cap DOMAIN last'.read :
                 last'.read[i].status = "orphaned" ]_vars


\* the notes in ids that the store holds are marked orphaned, one by one
RECURSIVE OrphanAll(_, _)
OrphanAll(ns, ids) ==
  IF ids = <<>> THEN ns
  ELSE OrphanAll(IF Head(ids) \in DOMAIN ns
                 THEN update(ns, Head(ids), [status |-> "orphaned"]) ELSE ns,
                 Tail(ids))

\* the store a run leaves when it applies the classification c undisturbed
Applied(ns, doc, c) ==
  IF c.diverged THEN ns
  ELSE LET orphaned == OrphanAll(bulkDelete(ns, c.notesToDelete).notes, c.notesToOrphan)
       IN bulkUpdate(orphaned, bulkUpdates(orphaned, doc, c.notesToUpdate))

\* the store a run of processChanges for file f leaves, given the batch
Reconciled(ns, doc, f, changes) == Applied(ns, doc, Classify(ns, f, changes))

\* the batch with its ranges i and j exchanged
Exchanged(changes, i, j) ==
  [k \in 1..Len(changes) |-> IF k = i THEN changes[j]
                              ELSE IF k = j THEN changes[i] ELSE changes[k]]

DistinctStartLines(changes) ==
  \A i, j \in 1..Len(changes) : i # j => changes[i].startLine # changes[j].startLine

\* C24: the ranges of a batch are processed in non-increasing startLine
\* order, and a batch whose start lines are distinct gives the same store
\* in whatever order its ranges were delivered.
C24_DeliveryOrderIrrelevant ==
  /\ \A k \in 1..(Len(last.changes) - 1) :
        last.changes[k].startLine >= last.changes[k + 1].startLine
  /\ \A f \in DOMAIN pendingChanges :
        DistinctStartLines(pendingChanges[f]) =>
          \A i, j \in 1..Len(pendingChanges[f]) :
            i < j =>
              Reconciled(notes, documents[f], f, Exchanged(pendingChanges[f], i, j))
                = Reconciled(notes, documents[f], f, pendingChanges[f])

\* a run has changed the store with a batch of two ranges that start on
\* different lines
C24_Witness ==
  /\ last.kind = "applied"
  /\ Len(last.changes) = 2
  /\ last.changes[1].startLine > last.changes[2].startLine
  /\ last.after # last.before


\* the path of a file after the folder old was renamed to new
PathAfterRename(path, old, new) ==
  IF path = old \/ (Len(path) > Len(old) /\ SubSeq(path, 1, Len(old) + 1) = old \o <<"/">>)
  THEN new \o SubSeq(path, Len(old) + 1, Len(path))
  ELSE path

\* the handler of a folder rename ends in this step: it returns, or the
\* save it awaits is replaced by a call that changes no path, so that it is
\* never resumed
FolderRenameEnds ==
  /\ handler'.kind = "rename"
  /\ handler'.isDirectory
  /\ \/ handler'.phase = "done" /\ handler' # handler
     \/ /\ handler'.phase = "stranded" /\ handler.phase = "waiting"
        /\ DOMAIN notes' = DOMAIN notes
        /\ \A i \in DOMAIN notes : notes'[i].filePath = notes[i].filePath

\* C25: when the handler of a folder rename ends, every note has the path
\* that the rename gives to the path it had when the handler started.
C25_RenamePrefixSafety ==
  [][ FolderRenameEnds =>
        \A i \in DOMAIN handler'.before \cap DOMAIN notes' :
          notes'[i].filePath =
            PathAfterRename(handler'.before[i].filePath, handler'.oldPath,
                            handler'.newPath) ]_vars


\* a handler of the file tracker starts in this step
FileEventStep == call'.count = call.count + 1 /\ handler'.event = call'.count

\* the step is the handler of a single-file rename, which makes its one
\* call of updateFilePath before it first awaits
FileRenameStep == FileEventStep /\ handler'.kind = "rename" /\ ~handler'.isDirectory

\* C26 as stated: after a single-file rename the notes that have the new
\* path are exactly those that had the old one, nothing else of them has
\* changed, and the other notes are untouched.
C26_RenameChangesOnlyPath ==
  [][ FileRenameStep =>
        /\ DOMAIN notes' = DOMAIN notes
        /\ {i \in DOMAIN notes' : notes'[i].filePath = handler'.newPath}
             = {i \in DOMAIN notes : notes[i].filePath = handler'.oldPath}
        /\ \A i \in DOMAIN notes :
             notes'[i] = IF notes[i].filePath = handler'.oldPath
                         THEN [notes[i] EXCEPT !.filePath = handler'.newPath]
                         ELSE notes[i] ]_vars

\* C26, amended: every note that had the old path has the new one and is
\* otherwise unchanged, and every other note is untouched, those that
\* already had the new path included.
C26_RenameFrame ==
  [][ FileRenameStep =>
        /\ DOMAIN notes' = DOMAIN notes
        /\ \A i \in DOMAIN notes :
             notes'[i] = IF notes[i].filePath = handler'.oldPath
                         THEN [notes[i] EXCEPT !.filePath = handler'.newPath]
                         ELSE notes[i] ]_vars

\* a single-file rename has moved an orphaned note while the store held a
\* note of another file
C26_Witness ==
  /\ handler.kind = "rename"
  /\ ~handler.isDirectory
  /\ handler.phase = "waiting"
  /\ \E i, j \in DOMAIN handler.before :
       /\ handler.before[i].filePath = handler.oldPath
       /\ handler.before[i].status = "orphaned"
       /\ handler.before[j].filePath # handler.oldPath
       /\ i \in DOMAIN notes /\ notes[i].filePath = handler.newPath

\* path is the deleted path or a path under it
Under(path, deleted) ==
  \/ path = deleted
  \/ Len(path) > Len(deleted) /\ SubSeq(path, 1, Len(deleted) + 1) = deleted \o <<"/">>

\* the handler of a delete event returns in this step
FileDeleteCompletes ==
  /\ handler'.kind = "delete"
  /\ handler'.phase = "done"
  /\ FileEventStep \/ handler.phase = "waiting"

IdOps == {"update", "delete", "bulkDelete", "bulkUpdate"}

\* the ids a call was given, in the order given
PassedIds(c) ==
  CASE c.op \in {"update", "delete"} -> <<c.args.id>>
    [] c.op = "bulkDelete" -> c.args.ids
    [] c.op = "bulkUpdate" -> [k \in 1..Len(c.args.updates) |-> c.args.updates[k].id]

\* those of them that the index held when the call was made
KnownIds(c) == SeqToSet(PassedIds(c)) \cap DOMAIN c.before

\* the ids named in the change events of the call
EventIds(c) == UNION {SeqToSet(c.events[k].noteIds) : k \in 1..Len(c.events)}

\* a caller other than the file tracker makes one of these calls in this step
IdCallStep ==
  call'.count = call.count + 1 /\ ~FileEventStep /\ call'.op \in IdOps

\* C28: a call with an id that is not in the index does nothing for that
\* id.  update returns undefined and delete returns false; bulkUpdate and
\* bulkDelete count and report only the ids they found; the index has no
\* entry for an unknown id afterwards, the notes not named by a known id
\* are untouched, no event names an unknown id, and a call that found no
\* id leaves the index, the save timer and the held event as they were.
C28_UnknownIdsNoOp ==
  [][ IdCallStep =>
        /\ DOMAIN notes' \subseteq DOMAIN notes
        /\ \A i \in DOMAIN notes \ KnownIds(call') :
             i \in DOMAIN notes' /\ notes'[i] = notes[i]
        /\ EventIds(call') \subseteq KnownIds(call')
        /\ call'.op = "update" /\ KnownIds(call') = {} => call'.result = <<>>
        /\ call'.op = "delete" /\ KnownIds(call') = {} => call'.result = FALSE
        /\ call'.op = "bulkDelete" => call'.result = Cardinality(KnownIds(call'))
        /\ call'.op = "bulkUpdate" =>
             call'.result = Cardinality({k \in 1..Len(call'.args.updates) :
                                           call'.args.updates[k].id \in DOMAIN notes})
        /\ KnownIds(call') = {} =>
             /\ call'.events = <<>>
             /\ UNCHANGED <<notes, debounceTimer, awaitingNotify, task, handler>> ]_vars

\* bulkDelete was given an id of the index and one that is not in it, and
\* deleted and reported the one it found
C28_Witness ==
  /\ call.op = "bulkDelete"
  /\ \E i \in DOMAIN call.before, j \in CallerIds \ DOMAIN call.before :
       /\ call.args.ids = <<j, i>>
       /\ call.result = 1
       /\ call.events = saveAndNotify("bulk-deleted", <<i>>)
       /\ i \notin DOMAIN call.after

\* update was given an id that is not in the index while a save was pending
C28_WitnessUpdate ==
  /\ call.op = "update"
  /\ call.args.id \notin DOMAIN call.before
  /\ call.before # <<>>
  /\ call.result = <<>>
  /\ debounceTimer = "store"


\* getById returns the note, or undefined: a sequence of one note or none
getById(ns, id) == IF id \in DOMAIN ns THEN <<ns[id]>> ELSE <<>>

\* ids in the order the Map holds them, which is the order of creation
RECURSIVE InMapOrder(_)
InMapOrder(ids) ==
  IF ids = {} THEN <<>>
  ELSE LET first == CHOOSE i \in ids : \A j \in ids : i <= j
       IN <<first>> \o InMapOrder(ids \ {first})

getByLine(ns, filePath, lineNumber) ==
  InMapOrder({i \in DOMAIN ns : ns[i].filePath = filePath /\ ns[i].lineNumber = lineNumber})

\* a call of the store acts in this step: the editor's create, a call by id
\* or by path, or a call of the file tracker that changed a note
StoreCallStep ==
  \/ call'.op = "create" /\ nextId' = nextId + 1
  \/ call'.count = call.count + 1 /\ ~FileEventStep
  \/ handler' # handler /\ handler'.phase = "waiting"

\* the options of the k-th update of a bulk update that no later update of
\* the same note overrides
Lasting(updates, k) ==
  {f \in DOMAIN updates[k].options :
     \A m \in (k + 1)..Len(updates) :
       updates[m].id = updates[k].id => f \notin DOMAIN updates[m].options}

\* what the reads of the index ns show of the call c
Visible(c, ns) ==
  CASE c.op = "create" ->
         /\ getById(ns, c.args.id) = c.result
         /\ c.args.id \in SeqToSet(getByFile(ns, c.result[1].filePath))
         /\ c.args.id \in SeqToSet(getByLine(ns, c.result[1].filePath,
                                               c.result[1].lineNumber))
    [] c.op = "update" ->
         c.args.id \in DOMAIN c.before =>
           /\ getById(ns, c.args.id) = c.result
           /\ \A f \in DOMAIN c.args.options :
                getById(ns, c.args.id)[1][f] = c.args.options[f]
           /\ c.args.id \in SeqToSet(getByLine(ns, ns[c.args.id].filePath,
                                                 ns[c.args.id].lineNumber))
    [] c.op = "delete" ->
         c.args.id \in DOMAIN c.before =>
           /\ getById(ns, c.args.id) = <<>>
           /\ c.args.id \notin SeqToSet(getByFile(ns, c.before[c.args.id].filePath))
    [] c.op = "bulkDelete" ->
         \A i \in SeqToSet(c.args.ids) :
           /\ getById(ns, i) = <<>>
           /\ i \in DOMAIN c.before =>
                i \notin SeqToSet(getByFile(ns, c.before[i].filePath))
    [] c.op = "bulkUpdate" ->
         \A k \in 1..Len(c.args.updates) :
           c.args.updates[k].id \in DOMAIN c.before =>
             \A f \in Lasting(c.args.updates, k) :
               getById(ns, c.args.updates[k].id)[1][f] = c.args.updates[k].options[f]
    [] c.op = "deleteByFile" ->
         /\ getByFile(ns, c.args.filePath) = <<>>
         /\ \A i \in SeqToSet(getByFile(c.before, c.args.filePath)) : getById(ns, i) = <<>>
    [] c.op = "updateFilePath" ->
         /\ c.args.oldPath # c.args.newPath => getByFile(ns, c.args.oldPath) = <<>>
         /\ SeqToSet(getByFile(c.before, c.args.oldPath))
              \subseteq SeqToSet(getByFile(ns, c.args.newPath))
         /\ \A i \in SeqToSet(getByFile(c.before, c.args.oldPath)) :
              i \in SeqToSet(getByLine(ns, c.args.newPath, c.before[i].lineNumber))

\* C29: at the step in which a mutating call of the store is made, the
\* index already shows the mutation to getById, getByFile and getByLine,
\* while the save the call scheduled is still pending and its change event
\* still held; and the end of a save, fired event or not, leaves the index
\* as it is.
C29_MutationsVisibleAtOnce ==
  [][ /\ StoreCallStep =>
           /\ call'.before = notes
           /\ Visible(call', notes')
           /\ call'.events # <<>> =>
                /\ debounceTimer' \in {"store", "fileTracker"}
                /\ awaitingNotify' = HeldEvent(call'.events)
      /\ (debounceTimer # "none" /\ debounceTimer' = "none") => notes' = notes ]_vars

\* an update of a note's line is in the index and shown by getByLine while
\* its save is pending
C29_Witness ==
  /\ call.op = "update"
  /\ call.args.id \in DOMAIN call.before
  /\ "lineNumber" \in DOMAIN call.args.options
  /\ call.before[call.args.id].lineNumber # call.args.options.lineNumber
  /\ debounceTimer = "store"
  /\ notes = call.after
  /\ call.args.id \in SeqToSet(getByLine(notes, notes[call.args.id].filePath,
                                          call.args.options.lineNumber))


(***************************************************************************)
(* The queries.  They are pure functions of the index, so they are applied *)
(* to every store of a bounded set of stores.  Texts are sequences of      *)
(* characters here, so that lower-casing and substring search are computed *)
(* as the code computes them.                                              *)
(***************************************************************************)
\* String.prototype.toLowerCase on the letters of the scenario
LowerChar(c) == CASE c = "A" -> "a" [] c = "B" -> "b" [] OTHER -> c

toLowerCase(s) == [k \in 1..Len(s) |-> LowerChar(s[k])]

\* String.prototype.includes
includes(s, search) ==
  \E k \in 0..(Len(s) - Len(search)) : SubSeq(s, k + 1, k + Len(search)) = search

\* if (filter.x): the criterion was given and is not the empty string; a
\* category or a status is one of the enumerated names, never empty
Given(filter, x) ==
  /\ x \in DOMAIN filter
  /\ x \in {"filePath", "searchText"} => filter[x] # <<>>

getFiltered(ns, filter) ==
  LET byPath == {i \in DOMAIN ns :
                   Given(filter, "filePath") => ns[i].filePath = filter.filePath}
      byCategory == {i \in byPath :
                       Given(filter, "category") => ns[i].category = filter.category}
      byStatus == {i \in byCategory :
                     Given(filter, "status") => ns[i].status = filter.status}
      bySearch == {i \in byStatus :
                     Given(filter, "searchText") =>
                       \/ includes(toLowerCase(ns[i].text), toLowerCase(filter.searchText))
                       \/ includes(toLowerCase(ns[i].lineContent),
                                   toLowerCase(filter.searchText))
                       \/ includes(toLowerCase(ns[i].filePath),
                                   toLowerCase(filter.searchText))}
  IN SortedByPath(ns, bySearch)

QueryPaths == {<<"a", "b">>, <<"b">>}
QueryTexts == {<<"A">>, <<"x", "b">>}

\* the notes of the scenario, as create and update leave them
QueryNotes ==
  {[filePath |-> p, lineNumber |-> l, lineContent |-> <<"c">>,
    lineContentHash |-> hashContent(<<"c">>), surroundingContext |-> EmptyContext,
    text |-> t, category |-> c, status |-> st] :
     p \in QueryPaths, l \in 0..1, t \in QueryTexts, c \in {"note", "todo"},
     st \in {"active", "orphaned"}}

QueryStores == UNION {[1..n -> QueryNotes] : n \in 0..MaxNotes}

\* the filters a caller may pass: each criterion given or left out
AllCriteria ==
  [filePath : QueryPaths \cup {<<>>, <<"c">>}, category : {"note", "todo"},
   status : {"active", "orphaned"},
   searchText : {<<>>, <<"a">>, <<"B">>, <<"a", "b">>, <<"x">>}]

Filters ==
  {[x \in D |-> full[x]] :
     D \in SUBSET {"filePath", "category", "status", "searchText"}, full \in AllCriteria}

QueryInit ==
  /\ notes \in QueryStores
  /\ nextId = Len(notes) + 1
  /\ documents = [f \in Files |-> InitialDocument]
  /\ pendingChanges = [f \in Files |-> <<>>]
  /\ debounceTimers = [f \in Files |-> FALSE]
  /\ debounceTimer = "none"
  /\ task = Idle
  /\ last = NoRun
  /\ editCount = 0
  /\ awaitingNotify = NoEvent
  /\ now = 0
  /\ timeouts = [f \in Files |-> {}]
  /\ eventLog = [f \in Files |-> NoEdits]
  /\ call = NoCall
  /\ handler = NoHandler
  /\ repository = NewRepository
  /\ currentSession = NoSession

\* a caller asks the store: the index is left alone
Query(op, args, result) ==
  /\ call = NoCall
  /\ call' = [op |-> op, args |-> args, before |-> notes, after |-> notes,
              result |-> result, events |-> <<>>, count |-> 1]
  /\ UNCHANGED <<currentSession, repository, notes, nextId, documents, pendingChanges, debounceTimers,
                 debounceTimer, task, last, editCount, awaitingNotify, now, timeouts,
                 eventLog, handler>>

QueryNext ==
  \/ \E p \in QueryPaths \cup {<<"c">>} :
       Query("getByFile", [filePath |-> p], getByFile(notes, p))
  \/ \E p \in QueryPaths \cup {<<"c">>}, l \in 0..1 :
       Query("getByLine", [filePath |-> p, lineNumber |-> l], getByLine(notes, p, l))
  \/ \E filter \in Filters :
       Query("getFiltered", [filter |-> filter], getFiltered(notes, filter))

QuerySpec == QueryInit /\ [][QueryNext]_vars

\* the letters a and b are the same whatever their case
SameLetter(a, b) ==
  \/ a = b
  \/ {a, b} = {"a", "A"}
  \/ {a, b} = {"b", "B"}

\* search occurs in s when case is ignored
ContainsIgnoringCase(s, search) ==
  \E k \in 0..(Len(s) - Len(search)) :
    \A m \in 1..Len(search) : SameLetter(s[k + m], search[m])

\* the note satisfies every criterion that the filter supplies
Satisfies(note, filter) ==
  /\ "filePath" \in DOMAIN filter => note.filePath = filter.filePath
  /\ "category" \in DOMAIN filter => note.category = filter.category
  /\ "status" \in DOMAIN filter => note.status = filter.status
  /\ "searchText" \in DOMAIN filter =>
       \/ ContainsIgnoringCase(note.text, filter.searchText)
       \/ ContainsIgnoringCase(note.lineContent, filter.searchText)
       \/ ContainsIgnoringCase(note.filePath, filter.searchText)

\* the result lists exactly the ids of the set, each once
ListsExactly(result, ids) ==
  SeqToSet(result) = ids /\ Len(result) = Cardinality(ids)

CHARSETS ==
  [uppercase |-> <<"A", "I">>, uppercaseNoAmbiguous |-> <<"A">>,
   lowercase |-> <<"a", "l">>, lowercaseNoAmbiguous |-> <<"a">>,
   numbers |-> <<"2", "0">>, numbersNoAmbiguous |-> <<"2">>,
   special |-> <<"!">>]

\* the bytes that end the rejection loop for a modulus max > 0
validBytes(max) == {b \in 0..(ByteValues - 1) : b < ByteValues - (ByteValues % max)}

\* secureRandomChar: the characters it can return
secureRandomChar(charset) ==
  {charset[(b % Len(charset)) + 1] : b \in validBytes(Len(charset))}

\* secureRandomInt: the integers it can return; none when the loop cannot end
secureRandomInt(max) == {b % max : b \in validBytes(max)}

\* the index of password[pos] = reqChar: with length 0 the modulus is NaN,
\* the loop ends at once and the index NaN is no index of the array
positions(length) ==
  IF length = 0 THEN {<<>>} ELSE {<<pos>> : pos \in secureRandomInt(length)}

\* lines 74-99: the characters to draw from
chars(options) ==
  (IF options.includeUppercase
   THEN (IF options.avoidAmbiguous THEN CHARSETS.uppercaseNoAmbiguous
         ELSE CHARSETS.uppercase) ELSE <<>>)
  \o (IF options.includeLowercase
      THEN (IF options.avoidAmbiguous THEN CHARSETS.lowercaseNoAmbiguous
            ELSE CHARSETS.lowercase) ELSE <<>>)
  \o (IF options.includeNumbers
      THEN (IF options.avoidAmbiguous THEN CHARSETS.numbersNoAmbiguous
            ELSE CHARSETS.numbers) ELSE <<>>)
  \o (IF options.includeSpecial THEN CHARSETS.special ELSE <<>>)

\* lines 84-99: the required characters, digits first, in every outcome
requiredChars(options) ==
  {n \o sp :
     n \in (IF options.includeNumbers
            THEN [1..options.minNumbers ->
                    secureRandomChar(IF options.avoidAmbiguous
                                     THEN CHARSETS.numbersNoAmbiguous
                                     ELSE CHARSETS.numbers)]
            ELSE {<<>>}),
     sp \in (IF options.includeSpecial
             THEN [1..options.minSpecial -> secureRandomChar(CHARSETS.special)]
             ELSE {<<>>})}

\* lines 112-115: password[pos] = reqChar, one required character after the other
RECURSIVE insert(_, _, _)
insert(password, required, at) ==
  IF required = <<>> THEN password
  ELSE insert(IF Head(at) = <<>> THEN password
              ELSE [password EXCEPT ![Head(at)[1] + 1] = Head(required)],
              Tail(required), Tail(at))

\* the number of required characters: lines 88 and 96
requiredCount(options) ==
  (IF options.includeNumbers THEN options.minNumbers ELSE 0)
  + (IF options.includeSpecial THEN options.minSpecial ELSE 0)

\* generatePassword: every outcome of a call, as [returned, password]; a
\* call whose rejection loop cannot end does not return
generatePassword(options) ==
  IF chars(options) = <<>> THEN {[returned |-> TRUE, password |-> <<>>]}
  ELSE IF requiredCount(options) > 0 /\ positions(options.length) = {}
  THEN {[returned |-> FALSE, password |-> <<>>]}
  ELSE {[returned |-> TRUE, password |-> insert(fill, required, at)] :
          fill \in [1..options.length -> secureRandomChar(chars(options))],
          required \in requiredChars(options),
          at \in [1..requiredCount(options) -> positions(options.length)]}

\* the option sets of the scenario: short passwords with every choice of
\* classes and minima, and passwords longer than a byte can index, asked
\* for with the default minima
LongLength == ByteValues + 1

PasswordOptions ==
  [length : 0..MaxLength, includeUppercase : BOOLEAN, includeLowercase : BOOLEAN,
   includeNumbers : BOOLEAN, includeSpecial : BOOLEAN, minNumbers : 0..MaxMinimum,
   minSpecial : 0..MaxMinimum, avoidAmbiguous : BOOLEAN]
  \cup [length : {LongLength}, includeUppercase : BOOLEAN, includeLowercase : BOOLEAN,
        includeNumbers : {TRUE}, includeSpecial : {TRUE}, minNumbers : {1},
        minSpecial : {1}, avoidAmbiguous : BOOLEAN]

\* the generator is called once
Generate(options) ==
  /\ call = NoCall
  /\ \E r \in generatePassword(options) :
       call' = [op |-> "generatePassword", args |-> options, returned |-> r.returned,
                result |-> r.password, count |-> 1]
  /\ UNCHANGED <<currentSession, repository, notes, nextId, documents, pendingChanges, debounceTimers,
                 debounceTimer, task, last, editCount, awaitingNotify, now, timeouts,
                 eventLog, handler>>

PasswordNext == \E options \in PasswordOptions : Generate(options)

PasswordSpec == Init /\ [][PasswordNext]_vars

\* the characters of a password that are of a set
CountOf(password, set) == Cardinality({k \in 1..Len(password) : password[k] \in set})

Digits == SeqToSet(CHARSETS.numbers)
Specials == SeqToSet(CHARSETS.special)
Ambiguous == {"I", "l", "0"}

\* C31: a password has at least minNumbers digits when digits are included
\* and minNumbers <= length, and at least minSpecial special characters
\* when they are included and minSpecial <= length, whatever the random
\* choices were.
C31_MinimumCounts ==
  (call.op = "generatePassword" /\ call.returned) =>
    /\ (call.args.includeNumbers /\ call.args.minNumbers <= call.args.length) =>
         CountOf(call.result, Digits) >= call.args.minNumbers
    /\ (call.args.includeSpecial /\ call.args.minSpecial <= call.args.length) =>
         CountOf(call.result, Specials) >= call.args.minSpecial

\* the characters that the enabled classes allow
Allowed(options) ==
  UNION {(IF options.includeUppercase THEN {"A", "I"} ELSE {}),
         (IF options.includeLowercase THEN {"a", "l"} ELSE {}),
         (IF options.includeNumbers THEN {"2", "0"} ELSE {}),
         (IF options.includeSpecial THEN {"!"} ELSE {})}
  \ (IF options.avoidAmbiguous THEN Ambiguous ELSE {})

\* C32: with a class enabled the call returns a password of exactly
\* options.length characters, each of an enabled class and none ambiguous
\* when avoidAmbiguous is set; with no class enabled it returns the empty
\* string.
C32_LengthAndAlphabet ==
  call.op = "generatePassword" =>
    /\ call.returned
    /\ Allowed(call.args) # {} =>
         /\ Len(call.result) = call.args.length
         /\ SeqToSet(call.result) \subseteq Allowed(call.args)
    /\ Allowed(call.args) = {} => call.result = <<>>


\* C33: every promise returned by NotesRepository.save is settled, so no
\* caller is left awaiting one for good: neither a run of processChanges
\* nor a handler of the file tracker is ever awaiting the promise of a
\* save whose timer was cleared.
C33_EverySaveSettles == task.phase # "stranded" /\ handler.phase # "stranded"


(***************************************************************************)
(* The repository and its file.  pendingSave is null or the latest array   *)
(* passed to save: a sequence of none or one snapshot of the index.  A     *)
(* write in flight is a call of saveImmediate that has not yet returned:   *)
(* the array it was given, and whether the timer's callback or dispose     *)
(* made it.  The file holds what the write that returned last was given.   *)
(* The change events of the calls are not followed here.                   *)
(***************************************************************************)
\* NotesRepository.save, lines 49-65, with the array of saveAndNotify
save(repo, snapshot) == [repo EXCEPT !.pendingSave = <<snapshot>>]

\* a mutating call of the store: its change of the index, then save
RepositorySaves(r) ==
  /\ ~repository.disposed
  /\ notes' = r.notes
  /\ IF r.events # <<>>
     THEN /\ repository' = save(repository, r.notes)
          /\ debounceTimer' = "store"
     ELSE UNCHANGED <<repository, debounceTimer>>

RepositoryCreate(filePath, lineNumber) ==
  /\ nextId <= MaxNotes
  /\ RepositorySaves(create(notes, nextId,
                            [filePath |-> filePath, lineNumber |-> lineNumber,
                             lineContent |-> "a", text |-> "t"]))
  /\ nextId' = nextId + 1
  /\ UNCHANGED <<currentSession, documents, pendingChanges, debounceTimers, task, last, editCount,
                 awaitingNotify, now, timeouts, eventLog, call, handler>>

RepositoryCall(op, args, r) ==
  /\ call.count < MaxCalls
  /\ RepositorySaves(r)
  /\ call' = [op |-> op, args |-> args, before |-> notes, after |-> r.notes,
              result |-> r.result, events |-> r.events, count |-> call.count + 1]
  /\ UNCHANGED <<currentSession, nextId, documents, pendingChanges, debounceTimers, task, last,
                 editCount, awaitingNotify, now, timeouts, eventLog, handler>>

\* lines 56-58: the timer fires and its callback calls
\* saveImmediate(this.pendingSave!), which awaits the file system
RepositoryTimerFires ==
  /\ debounceTimer # "none"
  /\ debounceTimer' = "none"
  /\ repository' = [repository EXCEPT
                      !.writing = @ \cup {[notes |-> repository.pendingSave,
                                           by |-> "timer"]}]
  /\ UNCHANGED <<currentSession, notes, nextId, documents, pendingChanges, debounceTimers, task, last,
                 editCount, awaitingNotify, now, timeouts, eventLog, call, handler>>

\* lines 119-130 and 59-60: a write returns; the callback of the timer then
\* sets pendingSave to null
RepositoryWriteReturns(w) ==
  /\ w \in repository.writing
  /\ repository' = [repository EXCEPT
                      !.writing = @ \ {w},
                      !.storage = <<w.notes>>,
                      !.pendingSave = IF w.by = "timer" THEN <<>> ELSE @]
  /\ UNCHANGED <<currentSession, notes, nextId, documents, pendingChanges, debounceTimers,
                 debounceTimer, task, last, editCount, awaitingNotify, now, timeouts,
                 eventLog, call, handler>>

\* dispose, lines 204-212
dispose ==
  /\ ~repository.disposed
  /\ debounceTimer' = "none"
  /\ repository' = [repository EXCEPT
                      !.disposed = TRUE,
                      !.writing = IF repository.pendingSave # <<>>
                                  THEN @ \cup {[notes |-> repository.pendingSave,
                                                by |-> "dispose"]}
                                  ELSE @]
  /\ UNCHANGED <<currentSession, notes, nextId, documents, pendingChanges, debounceTimers, task, last,
                 editCount, awaitingNotify, now, timeouts, eventLog, call, handler>>

RepositoryNext ==
  \/ \E p \in {FileInDir, FileBeside}, l \in 0..1 : RepositoryCreate(p, l)
  \/ \E id \in CallerIds, o \in UpdateOptions :
       RepositoryCall("update", [id |-> id, options |-> o], updateCall(notes, id, o))
  \/ \E id \in CallerIds : RepositoryCall("delete", [id |-> id], deleteCall(notes, id))
  \/ RepositoryTimerFires
  \/ \E w \in repository.writing : RepositoryWriteReturns(w)
  \/ dispose

RepositorySpec == Init /\ [][RepositoryNext]_vars

\* no save is armed and no write is in flight
Quiet == debounceTimer = "none" /\ repository.writing = {}

\* C34: once the index has been changed and neither a save is armed nor a
\* write in flight (the quiet period is over, or dispose has written), the
\* notes last written to the file are the index as it is.
C34_PersistenceConverges ==
  (Quiet /\ nextId > 1) => repository.storage = <<(<<notes>>)>>


\* the step delivers an edit event for file f, tracked or not
DeliveryStep(f) == editCount' # editCount /\ eventLog'[f].ranges = eventLog[f].ranges + 1

\* C35: a range delivered while its file has a note is added once to the
\* ranges accumulated for the file, which keep what they had; a range
\* delivered while the file has no note is not accumulated and touches no
\* timer; a run takes every range accumulated for its file, each once, and
\* leaves none behind; no other step adds, removes or repeats a range; and
\* ranges are never left accumulated without a timer scheduled to take
\* them, a suspended run of the same file notwithstanding.
C35_RangesConsumedOnce ==
  [][ \A f \in DOMAIN pendingChanges :
        /\ (DeliveryStep(f) /\ getByFile(notes, f) # <<>>) =>
             /\ Len(pendingChanges'[f]) = Len(pendingChanges[f]) + 1
             /\ SubSeq(pendingChanges'[f], 1, Len(pendingChanges[f])) = pendingChanges[f]
             /\ debounceTimers'[f]
             /\ Cardinality(timeouts'[f]) = 1
        /\ (DeliveryStep(f) /\ getByFile(notes, f) = <<>>) =>
             /\ pendingChanges'[f] = pendingChanges[f]
             /\ debounceTimers'[f] = debounceTimers[f]
             /\ timeouts'[f] = timeouts[f]
        /\ ReconcilerStep(f) =>
             /\ Len(last'.changes) = Len(pendingChanges[f])
             /\ \A k \in 1..Len(pendingChanges[f]) :
                  Cardinality({m \in 1..Len(last'.changes) :
                                 last'.changes[m] = pendingChanges[f][k]})
                  = Cardinality({m \in 1..Len(pendingChanges[f]) :
                                   pendingChanges[f][m] = pendingChanges[f][k]})
        /\ (~DeliveryStep(f) /\ ~ReconcilerStep(f)) => pendingChanges'[f] = pendingChanges[f]
        /\ pendingChanges'[f] # <<>> => debounceTimers'[f] /\ timeouts'[f] # {} ]_vars

\* a range was delivered and accumulated while a run of the same file was
\* awaiting a write of the store
C35_Witness ==
  \E f \in DOMAIN pendingChanges :
    /\ task.file = f
    /\ task.phase \in {"orphan", "final"}
    /\ pendingChanges[f] # <<>>
    /\ debounceTimers[f]

\* a run has taken the range that was delivered while the earlier run of
\* the file was awaiting a write of the store
C35_WitnessTaken ==
  /\ task.phase = "stranded"
  /\ last.kind # "none"
  /\ last.file = task.file
  /\ last.changes # task.changes
  /\ pendingChanges[task.file] = <<>>


\* the range inserts whole lines above line l
InsertionAbove(c, l) == c.startLine = c.endLine /\ c.endLine < l /\ Len(c.text) > 1

\* the range is a single-line edit on line l
EditOn(c, l) == SingleLineRange(c) /\ c.startLine = l

\* the batch of the latest run is the example for note i: single-line edits
\* on the note's line and insertions of lines above it, one of each at least
TouchedAndShifted(i) ==
  /\ \A j \in 1..Len(last.changes) :
       \/ EditOn(last.changes[j], last.before[i].lineNumber)
       \/ InsertionAbove(last.changes[j], last.before[i].lineNumber)
  /\ \E j \in 1..Len(last.changes) : EditOn(last.changes[j], last.before[i].lineNumber)
  /\ \E j \in 1..Len(last.changes) :
       InsertionAbove(last.changes[j], last.before[i].lineNumber)

RECURSIVE SumOfDeltas(_)
SumOfDeltas(changes) ==
  IF changes = <<>> THEN 0 ELSE NetDelta(Head(changes)) + SumOfDeltas(Tail(changes))

\* the store updates that the run computed for note i
FinalUpdatesOf(i) ==
  SelectSeq(bulkUpdates(last.read, last.document, last.notesToUpdate),
            LAMBDA u : u.id = i)

\* C36: a note touched by several ranges of a batch gets one final update
\* of the store at most; and when the ranges are single-line edits on its
\* line and insertions of k lines in all above it, the run ends, the note
\* is verified against document line L + k, and when the text there has
\* the note's fingerprint the note ends on that line with its status
\* unchanged.
C36_OneOutcomePerNote ==
  last.kind # "none" =>
    \A i \in Tracked :
      /\ last.kind = "applied" => Len(FinalUpdatesOf(i)) <= 1
      /\ TouchedAndShifted(i) =>
           /\ last.kind # "diverged"
           /\ (/\ last.kind = "applied"
               /\ last.before[i].lineNumber + SumOfDeltas(last.changes) \in DocLines
               /\ hashContent(DocLine(last.before[i].lineNumber
                                      + SumOfDeltas(last.changes)))
                    = last.before[i].lineContentHash) =>
                /\ i \in DOMAIN last.after
                /\ last.after[i].lineNumber
                     = last.before[i].lineNumber + SumOfDeltas(last.changes)
                /\ last.after[i].status = last.before[i].status


\* the fields of a note the edit reconciler may write; lineContentHash
\* follows lineContent (NotesService.bulkUpdate)
LineFields == {"lineNumber", "lineContent", "lineContentHash", "surroundingContext", "status"}

\* the keys of the options of the bulk update the latest run passed to the store
WrittenFields == UNION {DOMAIN Written[u].options : u \in 1..Len(Written)}

\* the step belongs to a run of processChanges for file f
RunStepOf(f) == ReconcilerStep(f) \/ (ResumeStep /\ task.file = f)

\* C37: a step of a run of processChanges for file f adds no note, leaves
\* every note of another file as it was, and in a note of f that it keeps
\* changes no field other than lineNumber, lineContent (with its hash),
\* surroundingContext and status; the updates it passes to the store carry
\* none of id, filePath, text, category, createdAt.
C37_TouchesNothingElse ==
  [][ \A f \in DOMAIN pendingChanges :
        RunStepOf(f) =>
          /\ DOMAIN notes' \subseteq DOMAIN notes
          /\ \A i \in DOMAIN notes :
               notes[i].filePath # f => i \in DOMAIN notes' /\ notes'[i] = notes[i]
          /\ \A i \in DOMAIN notes \cap DOMAIN notes' :
               \A k \in DOMAIN notes[i] \ LineFields : notes'[i][k] = notes[i][k]
          /\ last'.kind = "applied" =>
               WrittenFields' \subseteq (LineFields \ {"lineContentHash"}) ]_vars

\* C37 witness: a run has changed a note of its file while the store holds
\* a note of another file
C37_Witness ==
  /\ last.kind = "applied"
  /\ Written # <<>>
  /\ \E i \in DOMAIN last.after : last.after[i].filePath # last.file
  /\ \E j \in DOMAIN last.read :
       last.read[j].filePath = last.file /\ last.after[j] # last.read[j]


(***************************************************************************)
(* The notes panel beside a run of the line tracker.  The callback of the  *)
(* repository's timer awaits the write of the file before it resolves the  *)
(* promise of save (lines 56-61 of the repository): between the two, the   *)
(* timer is spent, so a save made meanwhile arms a new one and leaves the  *)
(* run's promise to be resolved when the write returns.  In that window    *)
(* the panel's re-anchor button, shown for an orphaned note of the cursor  *)
(* line, calls NotesService.reanchor.                                      *)
(***************************************************************************)
\* the timer of the save a run awaits fires; the write is in flight
SaveWriteBegins ==
  /\ debounceTimer = "processChanges"
  /\ task.phase = "orphan"
  /\ task' = [task EXCEPT !.phase = "writing"]
  /\ debounceTimer' = "none"
  /\ UNCHANGED <<currentSession, repository, notes, nextId, documents, pendingChanges, debounceTimers, last,
                 editCount, awaitingNotify, now, timeouts, eventLog, call, handler>>

\* the write returns: the promise is resolved and the run goes on with what
\* it had queued
SaveWriteReturns ==
  /\ task.phase = "writing"
  /\ \E r \in {Run(notes, documents[task.file], task)} :
       /\ notes' = r.notes
       /\ IF r.applied
          THEN last' = RunRecord(task, r, documents[task.file], "applied")
          ELSE UNCHANGED last
       /\ IF r.saved
          THEN /\ debounceTimer' = "processChanges"
               /\ task' = r.task
               /\ awaitingNotify' = r.event
          ELSE /\ task' = Idle
               /\ UNCHANGED <<debounceTimer, awaitingNotify>>
  /\ UNCHANGED <<currentSession, repository, nextId, documents, pendingChanges, debounceTimers, editCount,
                 now, timeouts, eventLog, call, handler>>

\* NotesPanel.handleReanchorNote and NotesService.reanchor: the note is
\* anchored to the cursor line of the editor, a line of the document on
\* which the panel listed it
reanchor(id) ==
  /\ call.count < MaxCalls
  /\ id \in DOMAIN notes
  /\ notes[id].status = "orphaned"
  /\ notes[id].lineNumber < lineCount(documents[notes[id].filePath])
  /\ \E doc \in {documents[notes[id].filePath]} :
     \E l \in {notes[id].lineNumber} :
     \E r \in {updateCall(notes, id,
                 [lineNumber |-> l, lineContent |-> lineAt(doc, l),
                  surroundingContext |-> getSurroundingContext(doc, l),
                  status |-> "active"])} :
       /\ notes' = r.notes
       /\ call' = [op |-> "reanchor", args |-> [id |-> id, lineNumber |-> l],
                   before |-> notes, after |-> r.notes, result |-> r.result,
                   events |-> r.events, count |-> call.count + 1, run |-> task]
  /\ debounceTimer' = "update"
  /\ awaitingNotify' = [type |-> "updated", noteIds |-> {id}]
  /\ task' = Stranded(task)
  /\ handler' = StrandedHandler(handler)
  /\ UNCHANGED <<currentSession, repository, nextId, documents, pendingChanges, debounceTimers, last,
                 editCount, now, timeouts, eventLog>>

PanelNext ==
  \/ \E f \in Files, l \in 0..(MaxLines - 1) : AddNote(f, l, FALSE)
  \/ \E f \in Files, l \in 0..(MaxLines - 1), s \in LineTexts :
        editCount < MaxEdits /\ EditLine(f, l, s)
  \/ \E f \in Files, l \in 0..(MaxLines - 1) :
        editCount < MaxEdits /\ DeleteLines(f, l, 1)
  \/ \E f \in Files, l \in 0..(MaxLines - 1), d \in 0..1, t \in PasteTexts :
        editCount < MaxEdits /\ ReplaceLines(f, l, d, t)
  \/ \E f \in Files : task.phase # "writing" /\ processChanges(f)
  \/ SaveTimerFires
  \/ SaveWriteBegins
  \/ SaveWriteReturns
  \/ \E id \in 1..MaxNotes : reanchor(id)

PanelSpec == Init /\ [][PanelNext]_vars

\* the step resumes the run that was awaiting the write when the panel
\* re-anchored a note
ResumesAfterReanchor ==
  /\ call.op = "reanchor"
  /\ task.phase = "writing"
  /\ call.run = task
  /\ task' # task

\* C38: a note the panel re-anchored while a run of its file was suspended
\* between two store writes keeps the lineNumber and the status of the
\* re-anchor when the run resumes.
C38_NoLostUserUpdate ==
  [][ ResumesAfterReanchor =>
        /\ call.args.id \in DOMAIN notes'
        /\ notes'[call.args.id].lineNumber = call.after[call.args.id].lineNumber
        /\ notes'[call.args.id].status = call.after[call.args.id].status ]_vars


(***************************************************************************)
(* A rename event with several files.  handleFileRename collects the path  *)
(* updates of all the files of the event, then applies them one awaited    *)
(* call of updateFilePath after the other.                                 *)
(***************************************************************************)
\* lines 189-217: the loop over event.files; each file is [oldPath, newPath,
\* isDirectory]
RECURSIVE eventPathUpdates(_, _)
eventPathUpdates(ns, files) ==
  IF files = <<>> THEN <<>>
  ELSE pathUpdates(ns, Head(files).oldPath, Head(files).newPath, Head(files).isDirectory)
       \o eventPathUpdates(ns, Tail(files))

\* handleFileRename, lines 188-224, for an event with the given files
handleFileRenameEvent(files) ==
  /\ call.count < MaxCalls
  /\ handler.phase # "waiting"
  /\ FileTrackerStep([kind |-> "rename", phase |-> "start", oldPath |-> files[1].oldPath,
                      newPath |-> files[1].newPath, isDirectory |-> files[1].isDirectory,
                      queue |-> eventPathUpdates(notes, files),
                      before |-> notes, event |-> call.count + 1, files |-> files],
                     call.count + 1)
  /\ UNCHANGED <<currentSession, repository, nextId, documents, pendingChanges, debounceTimers, last, editCount,
                 now, timeouts, eventLog>>

\* the paths of the files that are renamed
RenamePaths == {FileInDir, FileBeside, FileRenamedTo}

\* the events: one file, or two files with different old and new paths
RenameEvents ==
  LET FileRenames ==
        {f \in [oldPath : RenamePaths, newPath : RenamePaths, isDirectory : {FALSE}] :
           f.oldPath # f.newPath}
  IN {<<one>> : one \in FileRenames}
     \cup {e \in FileRenames \X FileRenames :
             e[1].oldPath # e[2].oldPath /\ e[1].newPath # e[2].newPath}

RenameNext ==
  \/ \E p \in RenamePaths, l \in 0..1 : StoreCreate(p, l)
  \/ \E files \in RenameEvents : handleFileRenameEvent(files)
  \/ FileTrackerResumes
  \/ SaveTimerFires

RenameSpec == Init /\ [][RenameNext]_vars

\* where the files of an event send a path
ImageOf(files, path) ==
  IF \E k \in 1..Len(files) : files[k].oldPath = path
  THEN files[CHOOSE k \in 1..Len(files) : files[k].oldPath = path].newPath
  ELSE path

\* the handler of a rename event has applied all its path updates
RenameEventDone ==
  handler.kind = "rename" /\ handler.phase = "done" /\ "files" \in DOMAIN handler

\* C39: when the handler of a rename event has finished, every note that
\* was in the store when the event came has the path to which the event
\* sends the path it had then.
C39_SimultaneousRenames ==
  RenameEventDone =>
    \A i \in DOMAIN handler.before \cap DOMAIN notes :
      notes[i].filePath = ImageOf(handler.files, handler.before[i].filePath)


(***************************************************************************)
(* The session tracker.  Times are in units of 100 ms, as now is; an event *)
(* is [filePath, timestamp, linesAdded, linesRemoved], and the tracker     *)
(* records events with the time of the edit, one after the other.          *)
(***************************************************************************)
\* line 216
idleThresholdMs == IdleTimeoutMinutes * 60 * 10

\* lines 207-213: the keys of fileMap, in the order of their first event
RECURSIVE fileMapKeys(_, _)
fileMapKeys(events, keys) ==
  IF events = <<>> THEN keys
  ELSE fileMapKeys(Tail(events),
                   IF Head(events).filePath \in SeqToSet(keys) THEN keys
                   ELSE Append(keys, Head(events).filePath))

\* line 219: Array.prototype.sort by timestamp, which is stable
RECURSIVE sortByTimestamp(_)
sortByTimestamp(fileEvents) ==
  IF fileEvents = <<>> THEN <<>>
  ELSE LET first == CHOOSE k \in 1..Len(fileEvents) :
                      \A m \in 1..Len(fileEvents) :
                        \/ fileEvents[k].timestamp < fileEvents[m].timestamp
                        \/ (fileEvents[k].timestamp = fileEvents[m].timestamp /\ k <= m)
       IN <<fileEvents[first]>>
          \o sortByTimestamp(SubSeq(fileEvents, 1, first - 1)
                             \o SubSeq(fileEvents, first + 1, Len(fileEvents)))

\* lines 221-236: the loop over the sorted events of a file, from the i-th on
RECURSIVE sumFrom(_, _)
sumFrom(sorted, i) ==
  IF i > Len(sorted) THEN [linesAdded |-> 0, linesRemoved |-> 0, estimatedTimeMs |-> 0]
  ELSE LET rest == sumFrom(sorted, i + 1)
           gap == IF i > 1 THEN sorted[i].timestamp - sorted[i - 1].timestamp ELSE 0
       IN [linesAdded |-> sorted[i].linesAdded + rest.linesAdded,
           linesRemoved |-> sorted[i].linesRemoved + rest.linesRemoved,
           estimatedTimeMs |-> (IF i > 1 /\ gap <= idleThresholdMs THEN gap ELSE 0)
                               + rest.estimatedTimeMs]

\* lines 218-246
summaryOf(filePath, fileEvents) ==
  LET sorted == sortByTimestamp(fileEvents)
      sums == sumFrom(sorted, 1)
  IN [filePath |-> filePath, totalEdits |-> Len(sorted),
      linesAdded |-> sums.linesAdded, linesRemoved |-> sums.linesRemoved,
      firstTouched |-> sorted[1].timestamp, lastTouched |-> sorted[Len(sorted)].timestamp,
      estimatedTimeMs |-> sums.estimatedTimeMs]

\* line 248: sort by estimatedTimeMs, largest first, stable
RECURSIVE sortByEstimatedTime(_)
sortByEstimatedTime(summaries) ==
  IF summaries = <<>> THEN <<>>
  ELSE LET first == CHOOSE k \in 1..Len(summaries) :
                      \A m \in 1..Len(summaries) :
                        \/ summaries[k].estimatedTimeMs > summaries[m].estimatedTimeMs
                        \/ (summaries[k].estimatedTimeMs = summaries[m].estimatedTimeMs
                            /\ k <= m)
       IN <<summaries[first]>>
          \o sortByEstimatedTime(SubSeq(summaries, 1, first - 1)
                                 \o SubSeq(summaries, first + 1, Len(summaries)))

\* lines 206-249
computeSummaries(events) ==
  LET keys == fileMapKeys(events, <<>>)
  IN sortByEstimatedTime([k \in 1..Len(keys) |->
                            summaryOf(keys[k],
                                      SelectSeq(events,
                                                LAMBDA e : e.filePath = keys[k]))])

\* lines 251-254
RECURSIVE computeTotalTime(_)
computeTotalTime(summaries) ==
  IF summaries = <<>> THEN 0
  ELSE Head(summaries).estimatedTimeMs + computeTotalTime(Tail(summaries))

\* startSession, lines 70-82; endedAt null is -1
startSession ==
  /\ currentSession = NoSession
  /\ currentSession' = [status |-> "active", startedAt |-> now, endedAt |-> -1,
                        files |-> <<>>, totalEstimatedTimeMs |-> 0, events |-> <<>>]
  /\ UNCHANGED <<repository, notes, nextId, documents, pendingChanges, debounceTimers,
                 debounceTimer, task, last, editCount, awaitingNotify, now, timeouts,
                 eventLog, call, handler>>

\* recordEvent, lines 113-120, with the event the tracker built at the time
\* of the edit (Date.now()), pause after the previous one
recordEvent(filePath, pause, linesAdded, linesRemoved) ==
  /\ currentSession # NoSession
  /\ Len(currentSession.events) < MaxEvents
  /\ now' = now + pause
  /\ \E events \in {Append(currentSession.events,
                           [filePath |-> filePath, timestamp |-> now + pause,
                            linesAdded |-> linesAdded, linesRemoved |-> linesRemoved])} :
     \E files \in {computeSummaries(events)} :
       currentSession' = [currentSession EXCEPT
                            !.events = events, !.files = files,
                            !.totalEstimatedTimeMs = computeTotalTime(files)]
  /\ UNCHANGED <<repository, notes, nextId, documents, pendingChanges, debounceTimers,
                 debounceTimer, task, last, editCount, awaitingNotify, timeouts,
                 eventLog, call, handler>>

SessionNext ==
  \/ startSession
  \/ \E f \in TwoFiles, removed \in 0..1,
        pause \in {idleThresholdMs \div 5, idleThresholdMs, idleThresholdMs + 1} :
       recordEvent(f, pause, 1, removed)

SessionSpec == Init /\ [][SessionNext]_vars

\* the timestamps of the events of the session
Timestamps == {currentSession.events[k].timestamp : k \in 1..Len(currentSession.events)}

\* C40: the total estimated time of a session is at most the time between
\* its earliest and its latest event.
C40_TimeWithinWallClock ==
  (currentSession # NoSession /\ currentSession.events # <<>>) =>
    \A first \in Timestamps, latest \in Timestamps :
      ( /\ \A t \in Timestamps : first <= t
        /\ \A t \in Timestamps : t <= latest )
      => currentSession.totalEstimatedTimeMs <= latest - first

====
